---------------------------- MODULE Spec2Model ----------------------------
(***************************************************************************)
(* The materialization protocol of inkwell's orc2 module                   *)
(* (src/src/orc2/mod.rs).                                                  *)
(*                                                                         *)
(* The Rust code is a layer of owned handles over the ORC engine: every    *)
(* method forwards to one LLVMOrc... function and decides only what        *)
(* happens to the Rust values (which handle is consumed, which is handed   *)
(* back, which result reaches the caller).  The engine's own code is not   *)
(* part of src/; the operators named LLVMOrc... below state the engine's   *)
(* behaviour as the specification words it (spec.md, sections 3, 4 and 5). *)
(* The operators named after the Rust methods are translated from the      *)
(* Rust source.                                                            *)
(***************************************************************************)
EXTENDS Naturals, FiniteSets, Sequences, TLC

(***************************************************************************)
(* Bounds of the model.                                                    *)
(***************************************************************************)
\* Materialization units and responsibilities created in one run.
MaxIds == 3
\* Lookups suspended at one time.
MaxLookups == 2
\* Dependence edges recorded at one time.
MaxDeps == 2
\* Resource trackers created in one namespace at one time.
MaxTrackers == 1
\* Entries the string pool has room for.
MaxEntries == 2
\* SymbolStringPoolEntry values a caller holds at one time.
MaxHandles == 3
\* ResourceTracker values a caller holds at one time.
MaxRtHandles == 3
\* Materialization units made by MaterializationUnit::create in one run.
MaxUnits == 1
\* Buffers of names the allocator has room for.
MaxBufs == 2
\* Names in the list given to DependenceMapPair::new.
MaxNames == 1
\* The threads that call define concurrently.
MaxThreads == 2
\* The largest 16-bit word: an address (u64) is four of them.
WordMax == 65535

\* The runs explored: many units with one lookup and no dependence edge, or
\* fewer units with several lookups and dependence edges.
Budgets == {[ids |-> MaxIds, lookups |-> 1, deps |-> 0, trackers |-> 0],
            [ids |-> MaxIds - 1, lookups |-> MaxLookups, deps |-> MaxDeps, trackers |-> 0]}

\* The namespaces (JIT dynamic libraries) of the session.
JDs == {"main", "lib"}
\* The interned symbol names.
Names == {"x", "y"}
\* The names that units declare in each namespace.
Declared(j) == IF j = "main" THEN {"x", "y"} ELSE {"x"}

Ids == 1 .. MaxIds
\* A definition is a name in a namespace.
Sym == JDs \X Names
NoJD == "none"

VARIABLES
    table,     \* [Sym -> definition-state]: each namespace's symbol table
    phase,     \* [Ids -> ...]: unused, defined (a unit accepted by define,
               \*   materialize not yet invoked), materializing (a live
               \*   responsibility), emitted, failed, discarded (a unit
               \*   removed before materialize was invoked)
    syms,      \* [Ids -> SUBSET Names]: the symbol set of the unit / responsibility
    target,    \* [Ids -> JDs]: its target namespace
    handle,    \* [Ids -> BOOLEAN]: a caller holds the Rust
               \*   MaterializationResponsibility value of this id
    deps,      \* set of <<x, y>>: definition x has a dependence edge on y
    waiting,   \* [Sym -> Nat]: the lookups suspended on each definition
    woken,     \* the lookups the most recent step answered: how many with
               \*   the address (ok), how many with an error (failed)
    lastErr,   \* the error the most recent call returned to its caller: none,
               \*   or the name of the call that returned it
    budget,    \* the bounds of this run, one of Budgets
    rt,        \* [Sym -> Nat]: the resource tracker of each definition, numbered
               \*   within its namespace: 0 is the namespace's default tracker
    trackers   \* set of <<namespace, n>>: the created trackers whose handle a
               \*   caller holds

\* The execution session: its string pool and its namespaces.
VARIABLES
    pool,      \* [Entries -> [text, count]]: the pool's memory; an entry that
               \*   was destroyed, or never made, is Free
    handles,   \* [Handles -> [entry, made]]: the SymbolStringPoolEntry values
               \*   a caller holds: the entry each points to and the text it
               \*   was made for
    units,     \* [Units -> [stage, names, init]]: the units made by
               \*   MaterializationUnit::create as the engine has them: how
               \*   far each is, the entries of its symbols and its static
               \*   initializer symbol
    boxes,     \* [Units -> [byMaterialize, byDestroy, discards, stale]]: the
               \*   boxed materializer of each unit: how often the
               \*   materialize callback and the destroy callback freed it,
               \*   how often discard was invoked on it, and how often
               \*   after it was freed
    dylibs,    \* the names of the session's namespaces
    ret        \* what the most recent create_jit_dylib or get_jit_dylib_by_name
               \*   returned: <<"Ok", namespace>>, <<"Err", none>>,
               \*   <<"Some", namespace>> or <<"None", none>>

\* The ResourceTracker values.
VARIABLES
    rts,       \* [RtHandles -> [rt, default]]: the ResourceTracker values a
               \*   caller holds: the tracker each points to and its flag
    rtRefs     \* [Trackers -> [made, removed, released]]: what the engine
               \*   was asked about each tracker: made by
               \*   create_resource_tracker, remove called, and the number of
               \*   LLVMOrcReleaseResourceTracker calls

\* The DependenceMapPair values.
VARIABLES
    heap,      \* [Bufs -> [names, live, frees]]: the buffers of name lists:
               \*   what was last written there, whether the buffer is
               \*   allocated, and how often it was freed since it was
               \*   allocated
    pair,      \* [jd, buf, len, given]: the DependenceMapPair value a caller
               \*   holds: its namespace, the pointer and length of its
               \*   name list, and the names it was made from
    vec,       \* [buf, len]: the Vec of names destruct returned
    got        \* the names the most recent get_names or destruct returned

\* The ResourceTracker values that went out of scope.
VARIABLES
    released   \* set of <<namespace, n>>: the created trackers that were
               \*   released because their handle was dropped without remove

\* Evaluated symbols and the addresses the engine holds.
VARIABLES
    evaluated, \* the EvaluatedSymbol the materializer built last (NoSymbol:
               \*   none yet): [Address, Flags]
    addrs,     \* [Sym -> address]: the address the engine recorded when the
               \*   definition was resolved (NoAddr: none)
    found      \* the address the last lookup was answered with (NoAddr: it
               \*   was not answered with one)

\* The threads inside JITDylib::define.
VARIABLES
    calls      \* [Threads -> [pc, jd, names, pre, unit]]: how far each thread
               \*   is in its call of define (idle, entered, called), the
               \*   namespace and the names of its unit, whether the names
               \*   were free when it entered, and the id the engine gave
               \*   the unit (0: the engine returned an error)

\* The state of the materialization protocol, of the session, and of the
\* values a caller owns.
protoVars == <<table, phase, syms, target, handle, deps, waiting, woken, lastErr, budget,
               rt, trackers, released, calls, evaluated, addrs, found>>
esVars == <<pool, handles, units, boxes>>
rhVars == <<dylibs, ret, rts, rtRefs>>
dmpVars == <<heap, pair, vec, got>>
\* What the calls of the protocol other than a drop of a tracker leave alone.
evVars == <<evaluated, addrs, found>>
\* The state of the engine's protocol.
engineVars == <<table, phase, syms, target, handle, deps, waiting, woken, lastErr, budget,
                rt, trackers>>
resVars == <<esVars, rhVars, dmpVars, released, calls, evVars>>

vars == <<table, phase, syms, target, handle, deps, waiting, woken, lastErr, budget,
          rt, trackers, pool, handles, units, boxes, dylibs, ret, rts, rtRefs,
          heap, pair, vec, got, released, calls, evaluated, addrs, found>>

States == {"absent", "pending", "resolved", "emitted", "errored", "failed"}
Phases == {"unused", "defined", "materializing", "emitted", "failed", "discarded"}

(***************************************************************************)
(* Helpers.                                                                *)
(***************************************************************************)
DefsOf(j, S) == {<<j, n>> : n \in S}

\* The definitions of id i.
Defs(i) == DefsOf(target[i], syms[i])

\* A name that define may claim: never defined, or failed and removed.
Vacant(s) == table[s] \in {"absent", "failed"}

\* A definition in a failure state: failed (its own responsibility failed and
\* it was removed) or errored (a dependency failed).
Failed(s) == table[s] \in {"failed", "errored"}

HasFree == \E i \in 1 .. budget.ids : phase[i] = "unused"

\* The id a new unit or responsibility gets.
NextId == CHOOSE i \in Ids : phase[i] = "unused" /\ \A k \in Ids : k < i => phase[k] # "unused"

\* The table with every definition of D moved to state st.
SetState(t, D, st) == [s \in Sym |-> IF s \in D THEN st ELSE t[s]]

\* What a call hands to its caller: no error, or the error of that call.
Ret(op, ok) == IF ok THEN "none" ELSE op

\* F and every definition with a chain of edges of G (of any length) into F.
RECURSIVE DependantsIn(_, _)
DependantsIn(G, F) ==
    LET new == {e[1] : e \in {d \in G : d[2] \in F}}
    IN  IF new \subseteq F THEN F ELSE DependantsIn(G, F \cup new)

Dependants(F) == DependantsIn(deps, F)

\* G has a cycle: the target of some edge depends on that edge's source.
Cyclic(G) == \E e \in G : e[2] \in DependantsIn(G, {e[1]})

RECURSIVE Sum(_, _)
Sum(f, D) == IF D = {} THEN 0 ELSE LET s == CHOOSE s \in D : TRUE IN f[s] + Sum(f, D \ {s})

\* The number of lookups suspended on the definitions of D.
Waiting(D) == Sum(waiting, D)

\* No lookup stays suspended on a definition of D.
Release(D) == [s \in Sym |-> IF s \in D THEN 0 ELSE waiting[s]]

NoneWoken == [ok |-> 0, failed |-> 0]

\* The trackers with every definition of D back under its namespace's default
\* tracker (a definition that is not there is under no other).
Untrack(D) == [s \in Sym |-> IF s \in D THEN 0 ELSE rt[s]]

\* The tracker of responsibility i, that of its symbols.
TrackerOf(i) == IF Defs(i) = {} THEN 0 ELSE rt[CHOOSE s \in Defs(i) : TRUE]

\* Mutant: only the requested symbols are returned.
get_symbols_requested(i) == {n \in syms[i] : waiting[<<target[i], n>>] > 0}

\* get_symbols: the names of the pairs the engine returns for i, all the
\* symbols i is responsible for.
get_symbols(i) == syms[i]

\* Mutant: every symbol of the responsibility is returned, as get_symbols
\* does.
get_requested_symbols_all(i) == syms[i]

\* get_requested_symbols: the names of i some suspended lookup asked for.
Requested(i) == {n \in syms[i] : waiting[<<target[i], n>>] > 0}

(***************************************************************************)
(* JITDylib::define                                                        *)
(***************************************************************************)
\* The engine's define: all of the unit's names are claimed, or none is.
LLVMOrcJITDylibDefine(j, S, ok) ==
    /\ ok = (\A n \in S : Vacant(<<j, n>>))
    /\ ok => HasFree
    /\ IF ok
       THEN /\ table' = SetState(table, DefsOf(j, S), "pending")
            /\ phase' = [phase EXCEPT ![NextId] = "defined"]
            /\ syms' = [syms EXCEPT ![NextId] = S]
            /\ target' = [target EXCEPT ![NextId] = j]
       ELSE UNCHANGED <<table, phase, syms, target>>

\* Mutant: a define that returns the duplicate-definition error has still
\* claimed the free names of the unit.
define_partial(j, S) ==
    \E ok \in BOOLEAN :
        /\ ok = (\A n \in S : Vacant(<<j, n>>))
        /\ ok => HasFree
        /\ table' = SetState(table, {s \in DefsOf(j, S) : Vacant(s)}, "pending")
        /\ IF ok
           THEN /\ phase' = [phase EXCEPT ![NextId] = "defined"]
                /\ syms' = [syms EXCEPT ![NextId] = S]
                /\ target' = [target EXCEPT ![NextId] = j]
           ELSE UNCHANGED <<phase, syms, target>>
        /\ lastErr' = Ret("define", ok)
        /\ woken' = NoneWoken
        /\ UNCHANGED <<handle, deps, waiting, budget, rt, trackers>>

\* define(&self, materialization_unit): the unit is forgotten by the Rust
\* side either way and the engine's result is returned.
define(j, S) ==
    \E ok \in BOOLEAN :
        /\ LLVMOrcJITDylibDefine(j, S, ok)
        /\ lastErr' = Ret("define", ok)
        /\ woken' = NoneWoken
        /\ UNCHANGED <<handle, deps, waiting, budget, rt, trackers>>

(***************************************************************************)
(* EvaluatedSymbol                                                         *)
(***************************************************************************)
\* A 64-bit address, most significant word first, and the addresses the
\* materializers pass: zero, the largest one, and one with only a high bit.
Words == 0 .. WordMax
Zero == <<0, 0, 0, 0>>
Addresses == {Zero, <<WordMax, WordMax, WordMax, WordMax>>, <<1, 0, 0, 0>>}
NoAddr == <<>>
\* SymbolFlags::new(generic_flags, target_flags): two bytes.
SymbolFlags_new(g, x) == [GenericFlags |-> g % 256, TargetFlags |-> x % 256]
FlagSets == {SymbolFlags_new(0, 0), SymbolFlags_new(16, 255)}
NoSymbol == [Address |-> NoAddr, Flags |-> SymbolFlags_new(0, 0)]

\* transmute of a u64 into the engine's address type: the same eight bytes.
transmute_u64(a) == [k \in 1 .. 4 |-> a[k] % (WordMax + 1)]

\* EvaluatedSymbol::new(address, flags), get_address and get_flags.
EvaluatedSymbolNew(a, f) == [Address |-> transmute_u64(a), Flags |-> f]
get_address(e) == e.Address
get_flags(e) == e.Flags

\* SymbolMapPair::new(name, symbol): the pair the engine reads.
SymbolMapPairNew(n, e) == [Name |-> n, Sym |-> e]

InitEV ==
    /\ evaluated = NoSymbol
    /\ addrs = [s \in Sym |-> NoAddr]
    /\ found = NoAddr

\* Mutant: an address of zero is stored as "unset".
EvaluatedSymbol_new_nonzero(a, f) ==
    /\ evaluated' = [Address |-> IF a = Zero THEN NoAddr ELSE transmute_u64(a), Flags |-> f]
    /\ UNCHANGED <<addrs, found>>

\* The materializer builds an evaluated symbol.
EvaluatedSymbol_new(a, f) ==
    /\ evaluated' = EvaluatedSymbolNew(a, f)
    /\ UNCHANGED <<addrs, found>>

\* The threads, and a thread that is not inside define.
Threads == 1 .. MaxThreads
Idle == [pc |-> "idle", jd |-> NoJD, names |-> {}, pre |-> FALSE, unit |-> 0]

\* A thread enters define(&self, materialization_unit) with a unit for the
\* names S in namespace j.
define_enter(t, j, S) ==
    /\ calls[t].pc = "idle"
    /\ calls' = [calls EXCEPT ![t] = [pc |-> "entered", jd |-> j, names |-> S,
                                       pre |-> \A n \in S : Vacant(<<j, n>>),
                                       unit |-> 0]]
    /\ UNCHANGED <<table, phase, syms, target, handle, deps, waiting, woken, lastErr,
                   budget, rt, trackers>>

\* Mutant: the names are claimed when they were free at the time the thread
\* entered, without looking at the table again.
define_call_unlocked(t) ==
    /\ calls[t].pc = "entered"
    /\ HasFree
    /\ IF calls[t].pre
       THEN /\ table' = SetState(table, DefsOf(calls[t].jd, calls[t].names), "pending")
            /\ phase' = [phase EXCEPT ![NextId] = "defined"]
            /\ syms' = [syms EXCEPT ![NextId] = calls[t].names]
            /\ target' = [target EXCEPT ![NextId] = calls[t].jd]
       ELSE UNCHANGED <<table, phase, syms, target>>
    /\ calls' = [calls EXCEPT ![t].pc = "called",
                              ![t].unit = IF calls[t].pre THEN NextId ELSE 0]
    /\ UNCHANGED <<handle, deps, waiting, woken, lastErr, budget, rt, trackers>>

\* The thread's call of LLVMOrcJITDylibDefine: one step of the engine, which
\* serializes the operations on a namespace (spec.md section 5).
define_call(t) ==
    /\ calls[t].pc = "entered"
    /\ \E ok \in BOOLEAN :
        /\ LLVMOrcJITDylibDefine(calls[t].jd, calls[t].names, ok)
        /\ calls' = [calls EXCEPT ![t].pc = "called",
                                  ![t].unit = IF ok THEN NextId ELSE 0]
    /\ UNCHANGED <<handle, deps, waiting, woken, lastErr, budget, rt, trackers>>

\* The thread forgets the unit and returns the engine's result.
define_return(t) ==
    /\ calls[t].pc = "called"
    /\ lastErr' = Ret("define", calls[t].unit # 0)
    /\ woken' = NoneWoken
    /\ calls' = [calls EXCEPT ![t] = Idle]
    /\ UNCHANGED <<table, phase, syms, target, handle, deps, waiting, budget, rt, trackers>>

(***************************************************************************)
(* Lookup and dispatch                                                     *)
(***************************************************************************)
\* A lookup of definition s: answered at once when s is emitted or is not
\* there to be waited for, suspended while s is pending or resolved.
lookup(s) ==
    /\ CASE table[s] = "emitted" ->
              /\ woken' = [ok |-> 1, failed |-> 0]
              /\ UNCHANGED waiting
         [] table[s] \in {"pending", "resolved"} ->
              /\ Waiting(Sym) < budget.lookups
              /\ waiting' = [waiting EXCEPT ![s] = @ + 1]
              /\ woken' = NoneWoken
         [] OTHER ->
              /\ woken' = [ok |-> 0, failed |-> 1]
              /\ UNCHANGED waiting
    /\ lastErr' = "none"
    /\ UNCHANGED <<table, phase, syms, target, handle, deps, budget, rt, trackers>>

\* Mutant: the callback runs for a unit whether or not it was already
\* dispatched and whether or not a lookup asked for it.
materialization_unit_materialize_again(i) ==
    /\ phase[i] \in {"defined", "materializing"}
    /\ phase' = [phase EXCEPT ![i] = "materializing"]
    /\ handle' = [handle EXCEPT ![i] = TRUE]
    /\ lastErr' = "none"
    /\ woken' = NoneWoken
    /\ UNCHANGED <<table, syms, target, deps, waiting, budget, rt, trackers>>

\* The materialize callback: the engine passes a responsibility for a unit
\* some lookup asked for, and the Rust side wraps it in a handle that it
\* gives to the materializer.
materialization_unit_materialize(i) ==
    /\ phase[i] = "defined"
    /\ Requested(i) # {}
    /\ phase' = [phase EXCEPT ![i] = "materializing"]
    /\ handle' = [handle EXCEPT ![i] = TRUE]
    /\ lastErr' = "none"
    /\ woken' = NoneWoken
    /\ UNCHANGED <<table, syms, target, deps, waiting, budget, rt, trackers>>

(***************************************************************************)
(* notify_resolved                                                         *)
(***************************************************************************)
LLVMOrcMaterializationResponsibilityNotifyResolved(i, M, ok) ==
    /\ ok = (/\ phase[i] = "materializing"
             /\ M \subseteq syms[i]
             /\ \A n \in M : table[<<target[i], n>>] = "pending")
    /\ table' = IF ok THEN SetState(table, DefsOf(target[i], M), "resolved") ELSE table

\* Mutant: the length passed to the engine is one short, one pair of the map
\* is not resolved.
notify_resolved_short(i, M) ==
    /\ handle[i]
    /\ \E ok \in BOOLEAN :
        /\ LLVMOrcMaterializationResponsibilityNotifyResolved(
               i, IF M = {} THEN M ELSE M \ {CHOOSE n \in M : TRUE}, ok)
        /\ lastErr' = Ret("notify_resolved", ok)
    /\ woken' = NoneWoken
    /\ UNCHANGED <<phase, syms, target, handle, deps, waiting, budget, rt, trackers>>

\* Mutant: the named symbols of the responsibility are resolved whatever
\* their state.
notify_resolved_any(i, M) ==
    /\ handle[i]
    /\ table' = SetState(table, DefsOf(target[i], M \cap syms[i]), "resolved")
    /\ lastErr' = "none"
    /\ woken' = NoneWoken
    /\ UNCHANGED <<phase, syms, target, handle, deps, waiting, budget, rt, trackers>>

\* notify_resolved(&self, symbols): every pair of the map goes to the engine.
notify_resolved(i, M) ==
    /\ handle[i]
    /\ \E ok \in BOOLEAN :
        /\ LLVMOrcMaterializationResponsibilityNotifyResolved(i, M, ok)
        /\ lastErr' = Ret("notify_resolved", ok)
    /\ woken' = NoneWoken
    /\ UNCHANGED <<phase, syms, target, handle, deps, waiting, budget, rt, trackers>>

\* The engine records the address of every pair it resolved.
LLVMOrcMaterializationResponsibilityNotifyResolved_(i, P, ok) ==
    addrs' = [s \in Sym |->
                IF ok /\ \E p \in P : s = <<target[i], p.Name>>
                THEN (CHOOSE p \in P : s = <<target[i], p.Name>>).Sym.Address
                ELSE addrs[s]]

\* notify_resolved(&self, symbols) with the pairs of the names M, each with
\* the evaluated symbol built last.
notify_resolved_pairs(i, M) ==
    /\ evaluated # NoSymbol
    /\ notify_resolved(i, M)
    /\ LLVMOrcMaterializationResponsibilityNotifyResolved_(
           i, {SymbolMapPairNew(n, evaluated) : n \in M}, lastErr' = "none")
    /\ UNCHANGED <<evaluated, found>>

\* A lookup of s and the address it is answered with.
lookup_address(s) ==
    /\ lookup(s)
    /\ found' = IF table[s] = "emitted" THEN addrs[s] ELSE NoAddr
    /\ UNCHANGED <<evaluated, addrs>>

(***************************************************************************)
(* notify_emitted                                                          *)
(***************************************************************************)
\* A recorded dependency of a definition of i has failed.
DependencyFailed(i) == \E e \in deps : e[1] \in Defs(i) /\ Failed(e[2])

\* On success the symbols are emitted, their lookups answered, and the
\* responsibility is gone.
LLVMOrcMaterializationResponsibilityNotifyEmitted(i, ok) ==
    /\ ok = (/\ phase[i] = "materializing"
             /\ \A s \in Defs(i) : table[s] = "resolved"
             /\ ~DependencyFailed(i))
    /\ IF ok
       THEN /\ table' = SetState(table, Defs(i), "emitted")
            /\ phase' = [phase EXCEPT ![i] = "emitted"]
            /\ syms' = [syms EXCEPT ![i] = {}]
            /\ target' = [target EXCEPT ![i] = NoJD]
            /\ deps' = {e \in deps : e[1] \notin Defs(i)}
            /\ waiting' = Release(Defs(i))
            /\ woken' = [ok |-> Waiting(Defs(i)), failed |-> 0]
       ELSE /\ woken' = NoneWoken
            /\ UNCHANGED <<table, phase, syms, target, deps, waiting>>

\* Mutant: the responsibility is not handed back with the error.
notify_emitted_drops(i) ==
    /\ handle[i]
    /\ \E ok \in BOOLEAN :
        /\ LLVMOrcMaterializationResponsibilityNotifyEmitted(i, ok)
        /\ handle' = [handle EXCEPT ![i] = FALSE]
        /\ lastErr' = Ret("notify_emitted", ok)
    /\ UNCHANGED <<budget, rt, trackers>>

\* Mutant: the engine's error is not returned, the call reports success
\* whatever the engine said.
notify_emitted_unchecked(i) ==
    /\ handle[i]
    /\ \E ok \in BOOLEAN :
        /\ LLVMOrcMaterializationResponsibilityNotifyEmitted(i, ok)
        /\ handle' = [handle EXCEPT ![i] = FALSE]
        /\ lastErr' = "none"
    /\ UNCHANGED <<budget, rt, trackers>>

\* Mutant: the call borrows the responsibility, the caller holds it after a
\* successful emission too.
notify_emitted_borrowed(i) ==
    /\ handle[i]
    /\ \E ok \in BOOLEAN :
        /\ LLVMOrcMaterializationResponsibilityNotifyEmitted(i, ok)
        /\ handle' = handle
        /\ lastErr' = Ret("notify_emitted", ok)
    /\ UNCHANGED <<budget, rt, trackers>>

\* Mutant: the symbols are emitted whether or not they were resolved.
notify_emitted_unresolved(i) ==
    /\ handle[i]
    /\ IF phase[i] = "materializing" /\ ~DependencyFailed(i)
       THEN /\ table' = SetState(table, Defs(i), "emitted")
            /\ phase' = [phase EXCEPT ![i] = "emitted"]
            /\ syms' = [syms EXCEPT ![i] = {}]
            /\ target' = [target EXCEPT ![i] = NoJD]
            /\ deps' = {e \in deps : e[1] \notin Defs(i)}
            /\ waiting' = Release(Defs(i))
            /\ woken' = [ok |-> Waiting(Defs(i)), failed |-> 0]
            /\ handle' = [handle EXCEPT ![i] = FALSE]
            /\ lastErr' = "none"
       ELSE /\ woken' = NoneWoken
            /\ lastErr' = "notify_emitted"
            /\ UNCHANGED <<table, phase, syms, target, deps, waiting, handle>>
    /\ UNCHANGED <<budget, rt, trackers>>

\* notify_emitted(self): the handle is consumed on success and handed back
\* with the error otherwise.
notify_emitted(i) ==
    /\ handle[i]
    /\ \E ok \in BOOLEAN :
        /\ LLVMOrcMaterializationResponsibilityNotifyEmitted(i, ok)
        /\ handle' = [handle EXCEPT ![i] = ~ok]
        /\ lastErr' = Ret("notify_emitted", ok)
    /\ UNCHANGED <<budget, rt, trackers>>

(***************************************************************************)
(* fail_materialization                                                    *)
(***************************************************************************)
\* The not-yet-emitted definitions of i.
Unemitted(i) == {s \in Defs(i) : table[s] # "emitted"}

\* The definitions that the failure of F drags along: those still pending or
\* resolved with a chain of dependence edges into F.
Dragged(F) == {s \in Dependants(F) \ F : table[s] \in {"pending", "resolved"}}

LLVMOrcMaterializationResponsibilityFailMaterialization(i) ==
    IF phase[i] = "materializing"
    THEN LET F == Unemitted(i)
             D == Dragged(F)
         IN  /\ table' = SetState(SetState(table, D, "errored"), F, "failed")
             /\ phase' = [phase EXCEPT ![i] = "failed"]
             /\ syms' = [syms EXCEPT ![i] = {}]
             /\ target' = [target EXCEPT ![i] = NoJD]
             /\ deps' = {e \in deps : e[1] \notin F}
             /\ waiting' = Release(F \cup D)
             /\ woken' = [ok |-> 0, failed |-> Waiting(F \cup D)]
             /\ rt' = Untrack(F)
    ELSE /\ woken' = NoneWoken
         /\ UNCHANGED <<table, phase, syms, target, deps, waiting, rt>>

\* A failure of responsibility i that fails F, moves D to the error state and
\* answers the lookups suspended on W.
FailAs(i, F, D, W) ==
    /\ handle[i]
    /\ IF phase[i] = "materializing"
       THEN /\ table' = SetState(SetState(table, D, "errored"), F, "failed")
            /\ phase' = [phase EXCEPT ![i] = "failed"]
            /\ syms' = [syms EXCEPT ![i] = {}]
            /\ target' = [target EXCEPT ![i] = NoJD]
            /\ deps' = {e \in deps : e[1] \notin F}
            /\ waiting' = Release(W)
            /\ woken' = [ok |-> 0, failed |-> Waiting(W)]
            /\ rt' = Untrack(F)
       ELSE /\ woken' = NoneWoken
            /\ UNCHANGED <<table, phase, syms, target, deps, waiting, rt>>
    /\ lastErr' = "none"
    /\ UNCHANGED <<handle, budget, trackers>>

\* Mutant: the failure reaches only the definitions with an edge straight to
\* a failed symbol.
fail_materialization_direct(i) ==
    LET F == Unemitted(i)
        D == {e[1] : e \in {d \in deps : d[2] \in F /\ d[1] \notin F
                                          /\ table[d[1]] \in {"pending", "resolved"}}}
    IN  FailAs(i, F, D, F \cup D)

\* Mutant: only the pending symbols of the responsibility are failed, the
\* resolved ones stay.
fail_materialization_pending(i) ==
    LET F == {s \in Defs(i) : table[s] = "pending"}
        D == Dragged(F)
    IN  FailAs(i, F, D, F \cup D)

\* Mutant: the lookups suspended on the failed symbols are not answered.
fail_materialization_silent(i) ==
    LET F == Unemitted(i)
    IN  FailAs(i, F, Dragged(F), {})

\* fail_materialization(&self): nothing is returned and the handle stays
\* with the caller.
fail_materialization(i) ==
    /\ handle[i]
    /\ LLVMOrcMaterializationResponsibilityFailMaterialization(i)
    /\ lastErr' = "none"
    /\ UNCHANGED <<handle, budget, trackers>>

(***************************************************************************)
(* delegate                                                                *)
(***************************************************************************)
LLVMOrcMaterializationResponsibilityDelegate(i, S, ok) ==
    /\ ok = (/\ phase[i] = "materializing"
             /\ S \subseteq syms[i]
             /\ \A n \in S : table[<<target[i], n>>] = "pending")
    /\ ok => HasFree
    /\ IF ok
       THEN /\ syms' = [syms EXCEPT ![i] = @ \ S, ![NextId] = S]
            /\ phase' = [phase EXCEPT ![NextId] = "materializing"]
            /\ target' = [target EXCEPT ![NextId] = target[i]]
       ELSE UNCHANGED <<syms, phase, target>>

\* Mutant: the delegated symbols stay with the original responsibility too.
delegate_keeps(i, S) ==
    /\ handle[i]
    /\ \E ok \in BOOLEAN :
        /\ ok = (/\ phase[i] = "materializing"
                 /\ S \subseteq syms[i]
                 /\ \A n \in S : table[<<target[i], n>>] = "pending")
        /\ ok => HasFree
        /\ IF ok
           THEN /\ syms' = [syms EXCEPT ![NextId] = S]
                /\ phase' = [phase EXCEPT ![NextId] = "materializing"]
                /\ target' = [target EXCEPT ![NextId] = target[i]]
                /\ handle' = [handle EXCEPT ![NextId] = TRUE]
           ELSE UNCHANGED <<syms, phase, target, handle>>
        /\ lastErr' = Ret("delegate", ok)
    /\ woken' = NoneWoken
    /\ UNCHANGED <<table, deps, waiting, budget, rt, trackers>>

\* Mutant: the delegated symbols leave the original responsibility and no
\* new responsibility is made for them.
delegate_drops(i, S) ==
    /\ handle[i]
    /\ \E ok \in BOOLEAN :
        /\ ok = (/\ phase[i] = "materializing"
                 /\ S \subseteq syms[i]
                 /\ \A n \in S : table[<<target[i], n>>] = "pending")
        /\ ok => HasFree
        /\ syms' = IF ok THEN [syms EXCEPT ![i] = @ \ S] ELSE syms
        /\ lastErr' = Ret("delegate", ok)
    /\ woken' = NoneWoken
    /\ UNCHANGED <<table, phase, target, handle, deps, waiting, budget, rt, trackers>>

\* delegate(&self, symbols): a handle for the new responsibility is made only
\* when the engine returned success.
delegate(i, S) ==
    /\ handle[i]
    /\ \E ok \in BOOLEAN :
        /\ LLVMOrcMaterializationResponsibilityDelegate(i, S, ok)
        /\ handle' = IF ok THEN [handle EXCEPT ![NextId] = TRUE] ELSE handle
        /\ lastErr' = Ret("delegate", ok)
    /\ woken' = NoneWoken
    /\ UNCHANGED <<table, deps, waiting, budget, rt, trackers>>

(***************************************************************************)
(* replace                                                                 *)
(***************************************************************************)
\* The symbols the unit declares leave i and are pending definitions of the
\* new unit, as after define.
LLVMOrcMaterializationResponsibilityReplace(i, S, ok) ==
    /\ ok = (/\ phase[i] = "materializing"
             /\ S \subseteq syms[i]
             /\ \A n \in S : table[<<target[i], n>>] = "pending")
    /\ ok => HasFree
    /\ IF ok
       THEN /\ syms' = [syms EXCEPT ![i] = @ \ S, ![NextId] = S]
            /\ phase' = [phase EXCEPT ![NextId] = "defined"]
            /\ target' = [target EXCEPT ![NextId] = target[i]]
       ELSE UNCHANGED <<syms, phase, target>>

\* Mutant: the symbols of the new unit stay with the calling responsibility
\* too.
replace_keeps(i, S) ==
    /\ handle[i]
    /\ \E ok \in BOOLEAN :
        /\ ok = (/\ phase[i] = "materializing"
                 /\ S \subseteq syms[i]
                 /\ \A n \in S : table[<<target[i], n>>] = "pending")
        /\ ok => HasFree
        /\ IF ok
           THEN /\ syms' = [syms EXCEPT ![NextId] = S]
                /\ phase' = [phase EXCEPT ![NextId] = "defined"]
                /\ target' = [target EXCEPT ![NextId] = target[i]]
           ELSE UNCHANGED <<syms, phase, target>>
        /\ lastErr' = Ret("replace", ok)
    /\ woken' = NoneWoken
    /\ UNCHANGED <<table, handle, deps, waiting, budget, rt, trackers>>

\* Mutant: the symbols of the unit are handed to a new live responsibility,
\* as delegate does, instead of a unit waiting for a lookup.
replace_as_delegate(i, S) ==
    /\ handle[i]
    /\ \E ok \in BOOLEAN :
        /\ LLVMOrcMaterializationResponsibilityDelegate(i, S, ok)
        /\ lastErr' = Ret("replace", ok)
    /\ woken' = NoneWoken
    /\ UNCHANGED <<table, handle, deps, waiting, budget, rt, trackers>>

\* Mutant: whatever the unit declares, every not-yet-resolved symbol of the
\* calling responsibility is handed over.
replace_unresolved(i, S) ==
    /\ handle[i]
    /\ \E ok \in BOOLEAN :
        /\ LLVMOrcMaterializationResponsibilityReplace(
               i, IF S \subseteq syms[i]
                  THEN {n \in syms[i] : table[<<target[i], n>>] = "pending"}
                  ELSE S, ok)
        /\ lastErr' = Ret("replace", ok)
    /\ woken' = NoneWoken
    /\ UNCHANGED <<table, handle, deps, waiting, budget, rt, trackers>>

\* replace(&self, materialization_unit): the unit is forgotten by the Rust
\* side either way and the engine's result is returned.
replace(i, S) ==
    /\ handle[i]
    /\ \E ok \in BOOLEAN :
        /\ LLVMOrcMaterializationResponsibilityReplace(i, S, ok)
        /\ lastErr' = Ret("replace", ok)
    /\ woken' = NoneWoken
    /\ UNCHANGED <<table, handle, deps, waiting, budget, rt, trackers>>

(***************************************************************************)
(* define_materializing                                                    *)
(***************************************************************************)
LLVMOrcMaterializationResponsibilityDefineMaterializing(i, S, ok) ==
    /\ ok = (/\ phase[i] = "materializing"
             /\ \A n \in S : Vacant(<<target[i], n>>))
    /\ IF ok
       THEN /\ syms' = [syms EXCEPT ![i] = @ \cup S]
            /\ table' = SetState(table, DefsOf(target[i], S), "pending")
            /\ rt' = [s \in Sym |-> IF s \in DefsOf(target[i], S)
                                     THEN TrackerOf(i) ELSE rt[s]]
       ELSE UNCHANGED <<syms, table, rt>>

\* Mutant: the free names among the new ones are claimed even when another
\* of them has a definition and the call returns the error.
define_materializing_partial(i, S) ==
    /\ handle[i]
    /\ \E ok \in BOOLEAN :
        /\ ok = (/\ phase[i] = "materializing"
                 /\ \A n \in S : Vacant(<<target[i], n>>))
        /\ IF phase[i] = "materializing"
           THEN LET F == {n \in S : Vacant(<<target[i], n>>)}
                IN  /\ syms' = [syms EXCEPT ![i] = @ \cup F]
                    /\ table' = SetState(table, DefsOf(target[i], F), "pending")
                    /\ rt' = [s \in Sym |-> IF s \in DefsOf(target[i], F)
                                             THEN TrackerOf(i) ELSE rt[s]]
           ELSE UNCHANGED <<syms, table, rt>>
        /\ lastErr' = Ret("define_materializing", ok)
    /\ woken' = NoneWoken
    /\ UNCHANGED <<phase, target, handle, deps, waiting, budget, trackers>>

\* Mutant: the newly claimed symbols take the place of the responsibility's
\* symbol set instead of being added to it.
define_materializing_instead(i, S) ==
    /\ handle[i]
    /\ \E ok \in BOOLEAN :
        /\ ok = (/\ phase[i] = "materializing"
                 /\ \A n \in S : Vacant(<<target[i], n>>))
        /\ IF ok
           THEN /\ syms' = [syms EXCEPT ![i] = S]
                /\ table' = SetState(table, DefsOf(target[i], S), "pending")
                /\ rt' = [s \in Sym |-> IF s \in DefsOf(target[i], S)
                                         THEN TrackerOf(i) ELSE rt[s]]
           ELSE UNCHANGED <<syms, table, rt>>
        /\ lastErr' = Ret("define_materializing", ok)
    /\ woken' = NoneWoken
    /\ UNCHANGED <<phase, target, handle, deps, waiting, budget, trackers>>

\* define_materializing(&self, pairs): the engine's result is returned.
define_materializing(i, S) ==
    /\ handle[i]
    /\ \E ok \in BOOLEAN :
        /\ LLVMOrcMaterializationResponsibilityDefineMaterializing(i, S, ok)
        /\ lastErr' = Ret("define_materializing", ok)
    /\ woken' = NoneWoken
    /\ UNCHANGED <<phase, target, handle, deps, waiting, budget, trackers>>

(***************************************************************************)
(* add_dependencies, add_dependencies_for_all                              *)
(***************************************************************************)
\* The edges from the names N of i to the definitions D are recorded, unless
\* a name is not one of i's or the edges would close a cycle.
RecordDependencies(i, N, D) ==
    IF phase[i] = "materializing" /\ N \subseteq syms[i]
    THEN LET E == DefsOf(target[i], N) \X D
         IN  IF Cyclic(deps \cup E) THEN deps ELSE deps \cup E
    ELSE deps

LLVMOrcMaterializationResponsibilityAddDependencies(i, n, D) ==
    deps' = RecordDependencies(i, {n}, D)

LLVMOrcMaterializationResponsibilityAddDependenciesForAll(i, D) ==
    deps' = RecordDependencies(i, syms[i], D)

\* DependenceMapPair::new(jit_dylib, names): the pair keeps the namespace, the
\* length of names and a pointer to the buffer of names; the buffer is freed
\* when new returns, so a later read through the pair finds any names: the
\* lists the engine may read are those of that length in those namespaces.
DependenceMapPairNew(D) ==
    {R \in SUBSET ({d[1] : d \in D} \X Names) :
        /\ Cardinality(R) = Cardinality(D)
        /\ {r[1] : r \in R} = {d[1] : d \in D}}

\* add_dependencies(&self, name, dependencies): nothing is returned.
add_dependencies(i, n, D) ==
    /\ handle[i]
    /\ \E R \in DependenceMapPairNew(D) :
           LLVMOrcMaterializationResponsibilityAddDependencies(i, n, R)
    /\ Cardinality(deps') <= budget.deps
    /\ lastErr' = "none"
    /\ woken' = NoneWoken
    /\ UNCHANGED <<table, phase, syms, target, handle, waiting, budget, rt, trackers>>

\* add_dependencies_for_all(&self, dependencies): nothing is returned.
add_dependencies_for_all(i, D) ==
    /\ handle[i]
    /\ \E R \in DependenceMapPairNew(D) :
           LLVMOrcMaterializationResponsibilityAddDependenciesForAll(i, R)
    /\ Cardinality(deps') <= budget.deps
    /\ lastErr' = "none"
    /\ woken' = NoneWoken
    /\ UNCHANGED <<table, phase, syms, target, handle, waiting, budget, rt, trackers>>

(***************************************************************************)
(* Resource trackers: create_resource_tracker, transfer_to, remove, clear  *)
(***************************************************************************)
\* A definition that is in its namespace.
Present(s) == table[s] \in {"pending", "resolved", "emitted", "errored"}

\* The definitions of namespace j under its tracker a.
Covered(j, a) == {s \in Sym : s[1] = j /\ Present(s) /\ rt[s] = a}

\* A caller holds a handle of tracker a of namespace j: the default tracker
\* is there for every caller, a created one while its handle lives.
Held(j, a) == a = 0 \/ <<j, a>> \in trackers

\* Tracker a of namespace j covers a definition.
Covers(j, a) == \E s \in Sym : s[1] = j /\ rt[s] = a /\ Present(s)

\* The not-yet-emitted definitions among R that a responsibility in flight
\* owns.
InFlight(R) ==
    {s \in R : table[s] # "emitted" /\ \E i \in Ids : phase[i] = "materializing" /\ s \in Defs(i)}

\* The engine retracts the definitions R: they leave the namespace with
\* their dependence edges, the units over them are discarded and the
\* responsibilities in flight over them failed, that failure spreads along
\* the dependence edges, and the lookups suspended on any of these are
\* answered with an error.
Retract(R) ==
    LET D == Dragged(InFlight(R)) \ R
        I == {i \in Ids : phase[i] \in {"defined", "materializing"} /\ Defs(i) \cap R # {}}
    IN  /\ rt' = Untrack(R)
        /\ phase' = [i \in Ids |->
                        IF i \notin I THEN phase[i]
                        ELSE IF phase[i] = "materializing" THEN "failed" ELSE "discarded"]
        /\ syms' = [i \in Ids |-> IF i \in I THEN {} ELSE syms[i]]
        /\ target' = [i \in Ids |-> IF i \in I THEN NoJD ELSE target[i]]
        /\ deps' = {e \in deps : e[1] \notin R /\ e[2] \notin R}
        /\ table' = SetState(SetState(table, D, "errored"), R, "absent")
        /\ waiting' = Release(R \cup D)
        /\ woken' = [ok |-> 0, failed |-> Waiting(R \cup D)]

LLVMOrcJITDylibCreateResourceTracker(j, n) ==
    /\ <<j, n>> \notin trackers
    /\ \A k \in 1 .. n - 1 : <<j, k>> \in trackers

\* create_resource_tracker(&self): the handle of a new tracker of the
\* namespace, not a default one.
create_resource_tracker(j) ==
    /\ \E n \in 1 .. budget.trackers :
        /\ LLVMOrcJITDylibCreateResourceTracker(j, n)
        /\ trackers' = trackers \cup {<<j, n>>}
    /\ lastErr' = "none"
    /\ woken' = NoneWoken
    /\ UNCHANGED <<table, phase, syms, target, handle, deps, waiting, budget, rt>>

\* Every definition under tracker a of namespace j goes under its tracker b;
\* nothing else changes. Both are trackers of the one namespace: a tracker
\* is scoped to the namespace that made it.
LLVMOrcResourceTrackerTransferTo(j, a, b) ==
    rt' = [s \in Sym |-> IF s \in Covered(j, a) THEN b ELSE rt[s]]

\* Mutant: source and destination are passed to the engine the wrong way
\* round.
transfer_to_reversed(j, a, b) ==
    /\ Held(j, a) /\ Held(j, b)
    /\ LLVMOrcResourceTrackerTransferTo(j, b, a)
    /\ lastErr' = "none"
    /\ woken' = NoneWoken
    /\ UNCHANGED <<table, phase, syms, target, handle, deps, waiting, budget, trackers>>

\* Mutant: the transfer fails the responsibilities in flight over the
\* definitions it moves.
transfer_to_cancels(j, a, b) ==
    /\ Held(j, a) /\ Held(j, b)
    /\ LLVMOrcResourceTrackerTransferTo(j, a, b)
    /\ phase' = [i \in Ids |->
                    IF phase[i] = "materializing" /\ Defs(i) \cap Covered(j, a) # {}
                    THEN "failed" ELSE phase[i]]
    /\ lastErr' = "none"
    /\ woken' = NoneWoken
    /\ UNCHANGED <<table, syms, target, handle, deps, waiting, budget, trackers>>

\* transfer_to(&self, destination): nothing is returned, both handles stay.
transfer_to(j, a, b) ==
    /\ Held(j, a) /\ Held(j, b)
    /\ LLVMOrcResourceTrackerTransferTo(j, a, b)
    /\ lastErr' = "none"
    /\ woken' = NoneWoken
    /\ UNCHANGED <<table, phase, syms, target, handle, deps, waiting, budget, trackers>>

LLVMOrcResourceTrackerRemove(j, a, ok) ==
    /\ ok = TRUE
    /\ Retract(Covered(j, a))

\* Mutant: the tracker is only released, as when its handle is dropped, and
\* the engine is not asked to remove anything.
remove_release(j, a) ==
    /\ Held(j, a)
    /\ lastErr' = "none"
    /\ woken' = NoneWoken
    /\ trackers' = trackers \ {<<j, a>>}
    /\ UNCHANGED <<table, phase, syms, target, handle, deps, waiting, budget, rt>>

\* remove(self): the engine's result is returned; the handle is consumed and
\* dropped, which releases a tracker that is not the default one.
remove(j, a) ==
    /\ Held(j, a)
    /\ \E ok \in BOOLEAN :
        /\ LLVMOrcResourceTrackerRemove(j, a, ok)
        /\ lastErr' = Ret("remove", ok)
    /\ trackers' = trackers \ {<<j, a>>}
    /\ UNCHANGED <<handle, budget>>

\* Every definition of the namespace is retracted.
LLVMOrcJITDylibClear(j, ok) ==
    /\ ok = TRUE
    /\ Retract({s \in Sym : s[1] = j /\ Present(s)})

\* Mutant: only the default tracker of the namespace is removed.
clear_default(j) ==
    /\ \E ok \in BOOLEAN :
        /\ LLVMOrcResourceTrackerRemove(j, 0, ok)
        /\ lastErr' = Ret("clear", ok)
    /\ UNCHANGED <<handle, budget, trackers>>

\* clear(&self): the engine's result is returned.
clear(j) ==
    /\ \E ok \in BOOLEAN :
        /\ LLVMOrcJITDylibClear(j, ok)
        /\ lastErr' = Ret("clear", ok)
    /\ UNCHANGED <<handle, budget, trackers>>

\* The engine releases tracker a of namespace j (spec.md section 4.3:
\* releasing a non-default tracker without calling remove/transfer folds its
\* definitions back into the namespace's default tracker; their state is
\* unaffected, only bookkeeping changes).
LLVMOrcReleaseResourceTracker_(j, a) ==
    rt' = [s \in Sym |-> IF s[1] = j /\ rt[s] = a THEN 0 ELSE rt[s]]

\* Mutant: the drop removes the tracker as remove(self) does.
drop_as_remove(j, a) ==
    /\ Held(j, a) /\ <<j, a>> \notin released
    /\ Retract(Covered(j, a))
    /\ trackers' = trackers \ {<<j, a>>}
    /\ released' = released \cup ({<<j, a>>} \ {<<j, 0>>})
    /\ lastErr' = "none"
    /\ UNCHANGED <<handle, budget>>

\* Drop for ResourceTracker, of a handle that was not passed to remove: the
\* tracker is released unless the handle is flagged default (a = 0: the
\* handle came from get_default_resource_tracker).  Each created tracker is
\* dropped once in a run.
drop_handle(j, a) ==
    /\ Held(j, a) /\ <<j, a>> \notin released
    /\ IF a # 0
       THEN /\ LLVMOrcReleaseResourceTracker_(j, a)
            /\ trackers' = trackers \ {<<j, a>>}
            /\ released' = released \cup {<<j, a>>}
       ELSE UNCHANGED <<rt, trackers, released>>
    /\ lastErr' = "none"
    /\ woken' = NoneWoken
    /\ UNCHANGED <<table, phase, syms, target, handle, deps, waiting, budget>>

(***************************************************************************)
(* The specification                                                       *)
(***************************************************************************)
(***************************************************************************)
(* Symbol names and materialization units: intern, Clone and Drop of       *)
(* SymbolStringPoolEntry, MaterializationUnit::create, define, and the     *)
(* callbacks materialize, discard and destroy                              *)
(***************************************************************************)
\* The texts a caller interns.
Texts == {"main", "f"}
NoText == "-"
Entries == 1 .. MaxEntries
Handles == 1 .. MaxHandles
Units == 1 .. MaxUnits
\* Pool memory that holds no entry.
Free == [text |-> NoText, count |-> 0]
\* No SymbolStringPoolEntry value / a null pointer.
NoHandle == [entry |-> 0, made |-> NoText]
\* No unit, and a materializer that no callback has touched.
NoUnit == [stage |-> "none", names |-> {}, init |-> NoHandle]
NoBox == [byMaterialize |-> 0, byDestroy |-> 0, discards |-> 0, stale |-> 0]

\* The engine's pool, as spec.md section 4.1 words it: interning creates the
\* entry if absent and increments its count; retain increments; release
\* decrements and the entry is destroyed when its count reaches zero.
\* Memory that holds no entry (a pointer kept after the entry was destroyed)
\* is left as it is; the pool may make a later entry at that place.
LLVMOrcExecutionSessionIntern(P, t, e) ==
    IF \E b \in Entries : P[b].text = t
    THEN IF P[e].text = t THEN [P EXCEPT ![e].count = @ + 1] ELSE P
    ELSE IF P[e] = Free THEN [P EXCEPT ![e] = [text |-> t, count |-> 1]] ELSE P

LLVMOrcRetainSymbolStringPoolEntry(P, e) ==
    IF e = 0 \/ P[e] = Free THEN P ELSE [P EXCEPT ![e].count = @ + 1]

LLVMOrcReleaseSymbolStringPoolEntry(P, e) ==
    IF e = 0 \/ P[e] = Free THEN P
    ELSE IF P[e].count = 1 THEN [P EXCEPT ![e] = Free]
    ELSE [P EXCEPT ![e].count = @ - 1]

\* Every entry of E released once.
RECURSIVE ReleaseAll(_, _)
ReleaseAll(P, E) ==
    IF E = {} THEN P
    ELSE LET e == CHOOSE x \in E : TRUE
         IN  ReleaseAll(LLVMOrcReleaseSymbolStringPoolEntry(P, e), E \ {e})

LLVMOrcSymbolStringPoolEntryStr(e) == pool[e].text

\* intern(&self, name): the value wraps the entry the engine returns.
intern(h, t) ==
    /\ handles[h] = NoHandle
    /\ \E e \in Entries :
        /\ pool' = LLVMOrcExecutionSessionIntern(pool, t, e)
        /\ pool' # pool
        /\ handles' = [handles EXCEPT ![h] = [entry |-> e, made |-> t]]
    /\ UNCHANGED <<units, boxes>>

\* Clone for SymbolStringPoolEntry: retain, and a second value for the entry.
clone(h, c) ==
    /\ handles[h] # NoHandle /\ handles[c] = NoHandle
    /\ pool' = LLVMOrcRetainSymbolStringPoolEntry(pool, handles[h].entry)
    /\ handles' = [handles EXCEPT ![c] = handles[h]]
    /\ UNCHANGED <<units, boxes>>

\* Drop for SymbolStringPoolEntry: release.
drop(h) ==
    /\ handles[h] # NoHandle
    /\ pool' = LLVMOrcReleaseSymbolStringPoolEntry(pool, handles[h].entry)
    /\ handles' = [handles EXCEPT ![h] = NoHandle]
    /\ UNCHANGED <<units, boxes>>

\* get_string(&self): the text at the entry.
get_string(h) == LLVMOrcSymbolStringPoolEntryStr(handles[h].entry)

\* PartialEq for SymbolStringPoolEntry (derived): the pointers are compared.
eq(h, c) == handles[h].entry = handles[c].entry

\* The engine makes a unit: the references of the symbol names in the pairs
\* become its own, and it takes a reference of its own to the static
\* initializer symbol at e (none for a null pointer).
LLVMOrcCreateCustomMaterializationUnit(P, e) ==
    LLVMOrcRetainSymbolStringPoolEntry(P, e)

\* MaterializationUnit::create(name, symbols, static_initializer,
\* materializer): the materializer is boxed; the names in symbols are moved
\* into the pairs, which release nothing when they go; and
\* static_initializer.map(|s| s.entry) takes the pointer out of the value i
\* and drops the value, then the engine is given the pointer (i = 0: None).
create(u, H, i) ==
    /\ units[u] = NoUnit
    /\ i \notin H
    /\ \A h \in H \cup ({i} \ {0}) : handles[h] # NoHandle
    /\ \A h, c \in H : h # c => ~eq(h, c)
    /\ LET s == IF i = 0 THEN NoHandle ELSE handles[i]
       IN  /\ pool' = LLVMOrcCreateCustomMaterializationUnit(
                          LLVMOrcReleaseSymbolStringPoolEntry(pool, s.entry), s.entry)
           /\ units' = [units EXCEPT ![u] = [stage |-> "created",
                                              names |-> {handles[h].entry : h \in H},
                                              init |-> s]]
    /\ handles' = [h \in Handles |-> IF h \in H \cup {i} THEN NoHandle ELSE handles[h]]
    /\ boxes' = [boxes EXCEPT ![u] = NoBox]

\* materialization_unit_destroy(ctx): the box is rebuilt from the pointer and
\* dropped.
materialization_unit_destroy(B, u) == [B EXCEPT ![u].byDestroy = @ + 1]

\* The engine disposes of a unit that was not materialized: it invokes
\* destroy and releases its references (spec.md section 9: the dispatcher
\* holds the materializer, invokes it exactly once, then releases it; a
\* unit that was dispatched is not disposed of through destroy).
LLVMOrcDisposeMaterializationUnit(u) ==
    /\ boxes' = materialization_unit_destroy(boxes, u)
    /\ pool' = ReleaseAll(LLVMOrcReleaseSymbolStringPoolEntry(pool, units[u].init.entry),
                          units[u].names)
    /\ units' = [units EXCEPT ![u] = [stage |-> "disposed", names |-> {}, init |-> NoHandle]]

\* Drop for MaterializationUnit: a unit that was never handed to define.
drop_MaterializationUnit(u) ==
    /\ units[u].stage = "created"
    /\ LLVMOrcDisposeMaterializationUnit(u)
    /\ UNCHANGED handles

\* The engine is handed the unit (spec.md section 3: once handed to a
\* namespace via define the unit is consumed; section 4.2: a define that
\* fails mutates no state): accepted, the unit is the namespace's; refused,
\* the unit is as it was and still the caller's to dispose of.
LLVMOrcJITDylibDefine_(U, u, ok) ==
    IF ok THEN [U EXCEPT ![u].stage = "defined"] ELSE U

\* mem::forget of a MaterializationUnit: its Drop does not run; a unit that
\* was still the caller's can be disposed of by nobody.
forget_MaterializationUnit(U, u) ==
    IF U[u].stage = "created" THEN [U EXCEPT ![u].stage = "leaked"] ELSE U

\* JITDylib::define(&self, materialization_unit): the value is forgotten
\* whatever the engine returns.
define_unit(u) ==
    /\ units[u].stage = "created"
    /\ \E ok \in BOOLEAN :
        units' = forget_MaterializationUnit(LLVMOrcJITDylibDefine_(units, u, ok), u)
    /\ UNCHANGED <<pool, handles, boxes>>

\* The engine is handed the unit by a responsibility (spec.md section 4.4,
\* replace: the new unit is claimed via the normal define path).
LLVMOrcMaterializationResponsibilityReplace_(U, u, ok) == LLVMOrcJITDylibDefine_(U, u, ok)

\* MaterializationResponsibility::replace(&self, materialization_unit): the
\* value is forgotten whatever the engine returns.  Of a unit it refuses the
\* engine either disposes itself, or it leaves it to the caller as a define
\* does.
replace_unit(u) ==
    /\ units[u].stage = "created"
    /\ \E ok, kept \in BOOLEAN :
        IF ok \/ kept
        THEN /\ units' = forget_MaterializationUnit(
                             LLVMOrcMaterializationResponsibilityReplace_(units, u, ok), u)
             /\ UNCHANGED <<pool, boxes>>
        ELSE LLVMOrcDisposeMaterializationUnit(u)
    /\ UNCHANGED handles

\* The engine removes a unit that was defined and not yet dispatched (its
\* tracker is removed, its namespace cleared).
dispose(u) ==
    /\ units[u].stage = "defined"
    /\ LLVMOrcDisposeMaterializationUnit(u)
    /\ UNCHANGED handles

\* materialization_unit_materialize(ctx, mr), first half: the materializer's
\* materialize is invoked with the responsibility.
Materializer_materialize(u) ==
    /\ units[u].stage = "defined"
    /\ units' = [units EXCEPT ![u].stage = "materializing"]
    /\ UNCHANGED <<pool, handles, boxes>>

\* materialization_unit_materialize(ctx, mr), second half: materialize has
\* returned; the box is rebuilt from the pointer and dropped.
materialize_return(u) ==
    /\ units[u].stage = "materializing"
    /\ units' = [units EXCEPT ![u].stage = "returned"]
    /\ boxes' = [boxes EXCEPT ![u].byMaterialize = @ + 1]
    /\ UNCHANGED <<pool, handles>>

\* The materializer's box was freed.
Freed(u) == boxes[u].byMaterialize + boxes[u].byDestroy > 0

\* mem::forget of a SymbolStringPoolEntry: its Drop does not run.
forget(P, e) == P

\* materialization_unit_discard(ctx, jit_dylib, symbol): the materializer is
\* reached through ctx, its discard invoked with values wrapped around the
\* two pointers, and the values are forgotten.
materialization_unit_discard(u, e) ==
    /\ boxes' = [boxes EXCEPT ![u].discards = @ + 1,
                              ![u].stale = @ + (IF Freed(u) THEN 1 ELSE 0)]
    /\ pool' = forget(pool, e)
    /\ UNCHANGED <<handles, units>>

\* The engine invokes discard for a symbol of the unit: when a competing
\* unit claims it before materialization begins (spec.md section 3,
\* Materializer), and when the tracker of a responsibility still pending is
\* removed, for the symbols not yet resolved (spec.md section 4.3, remove;
\* section 4.4: discard must not assume materialize has or has not yet run).
discard(u, e) ==
    /\ units[u].stage \in {"defined", "materializing", "returned"}
    /\ e \in units[u].names
    /\ boxes[u].discards < Cardinality(units[u].names)
    /\ materialization_unit_discard(u, e)

\* The engine returns the pointer it keeps, with no reference for the
\* caller.
LLVMOrcMaterializationResponsibilityGetInitializerSymbol(u) == units[u].init

\* get_static_initializer_symbol(&self), on the responsibility of unit u:
\* None for a null pointer, else a value wrapped around the pointer.
get_static_initializer_symbol(h, u) ==
    /\ units[u].stage \in {"materializing", "returned"}
    /\ handles[h] = NoHandle
    /\ LLVMOrcMaterializationResponsibilityGetInitializerSymbol(u) # NoHandle
    /\ handles' = [handles EXCEPT ![h] =
                      LLVMOrcMaterializationResponsibilityGetInitializerSymbol(u)]
    /\ UNCHANGED <<pool, units, boxes>>

\* An empty pool, no value, no unit.
InitES ==
    /\ pool = [e \in Entries |-> Free]
    /\ handles = [h \in Handles |-> NoHandle]
    /\ units = [u \in Units |-> NoUnit]
    /\ boxes = [u \in Units |-> NoBox]

(***************************************************************************)
(* Namespaces of the session: create_jit_dylib, get_jit_dylib_by_name      *)
(***************************************************************************)
\* The engine's registry of namespaces (spec.md section 4.5): creating a
\* name that exists fails; a namespace is never destroyed.
LLVMOrcExecutionSessionCreateJITDylib(n, ok) ==
    /\ ok = (n \notin dylibs)
    /\ dylibs' = IF ok THEN dylibs \cup {n} ELSE dylibs

\* The namespace of that name, or a null pointer.
LLVMOrcExecutionSessionGetJITDylibByName(n) == IF n \in dylibs THEN n ELSE NoJD

\* Mutant: the engine's error is dropped and the pointer wrapped.
create_jit_dylib_unchecked(n) ==
    /\ \E ok \in BOOLEAN :
        /\ LLVMOrcExecutionSessionCreateJITDylib(n, ok)
        /\ ret' = <<"Ok", n>>
    /\ UNCHANGED <<rts, rtRefs>>

\* create_jit_dylib(&self, name): the engine's error, or the new namespace.
create_jit_dylib(n) ==
    /\ \E ok \in BOOLEAN :
        /\ LLVMOrcExecutionSessionCreateJITDylib(n, ok)
        /\ ret' = IF ok THEN <<"Ok", n>> ELSE <<"Err", NoJD>>
    /\ UNCHANGED <<rts, rtRefs>>

\* get_jit_dylib_by_name(&self, name): None for a null pointer.
get_jit_dylib_by_name(n) ==
    /\ ret' = IF LLVMOrcExecutionSessionGetJITDylibByName(n) = NoJD
              THEN <<"None", NoJD>>
              ELSE <<"Some", LLVMOrcExecutionSessionGetJITDylibByName(n)>>
    /\ UNCHANGED <<dylibs, rts, rtRefs>>

(***************************************************************************)
(* The ResourceTracker values: get_default_resource_tracker,               *)
(* create_resource_tracker, remove(self) and Drop                          *)
(***************************************************************************)
RtHandles == 1 .. MaxRtHandles
\* The trackers of the namespaces: <<j, 0>> is the default tracker of j.
Trackers == JDs \X (0 .. MaxTrackers)
NoRt == <<NoJD, 0>>
\* No ResourceTracker value.
NoRtHandle == [rt |-> NoRt, default |-> FALSE]

\* ResourceTracker::new(rt, default).
ResourceTracker_new(k, d) == [rt |-> k, default |-> d]

\* The default tracker of the namespace: it is there from the start and
\* is the namespace's own.
LLVMOrcJITDylibGetDefaultResourceTracker(j) == <<j, 0>>

\* get_default_resource_tracker(&self): a value flagged default.
get_default_resource_tracker(h, j) ==
    /\ j \in dylibs
    /\ rts[h] = NoRtHandle
    /\ rts' = [rts EXCEPT ![h] =
                  ResourceTracker_new(LLVMOrcJITDylibGetDefaultResourceTracker(j), TRUE)]
    /\ UNCHANGED <<rtRefs, dylibs, ret>>

\* create_resource_tracker(&self): the engine makes a tracker of the
\* namespace; a value not flagged default.
create_tracker(h, j) ==
    /\ j \in dylibs
    /\ rts[h] = NoRtHandle
    /\ \E n \in 1 .. MaxTrackers :
        /\ ~rtRefs[<<j, n>>].made
        /\ \A m \in 1 .. n - 1 : rtRefs[<<j, m>>].made
        /\ rtRefs' = [rtRefs EXCEPT ![<<j, n>>].made = TRUE]
        /\ rts' = [rts EXCEPT ![h] = ResourceTracker_new(<<j, n>>, FALSE)]
    /\ UNCHANGED <<dylibs, ret>>

LLVMOrcReleaseResourceTracker(R, k) == [R EXCEPT ![k].released = @ + 1]

\* Mutant: the flag is not looked at.
drop_ResourceTracker_any(R, v) ==
    IF v.rt # NoRt THEN LLVMOrcReleaseResourceTracker(R, v.rt) ELSE R

\* Drop for ResourceTracker: released unless flagged default (or null).
drop_ResourceTracker(R, v) ==
    IF ~v.default /\ v.rt # NoRt THEN LLVMOrcReleaseResourceTracker(R, v.rt) ELSE R

\* A ResourceTracker value goes out of scope.
drop_tracker(h) ==
    /\ rts[h] # NoRtHandle
    /\ rtRefs' = drop_ResourceTracker(rtRefs, rts[h])
    /\ rts' = [rts EXCEPT ![h] = NoRtHandle]
    /\ UNCHANGED <<dylibs, ret>>

\* remove(self): the engine removes what the tracker covers, then self goes
\* out of scope.
remove_tracker(h) ==
    /\ rts[h] # NoRtHandle
    /\ rtRefs' = drop_ResourceTracker([rtRefs EXCEPT ![rts[h].rt].removed = TRUE], rts[h])
    /\ rts' = [rts EXCEPT ![h] = NoRtHandle]
    /\ UNCHANGED <<dylibs, ret>>

\* A session with the namespace main; no ResourceTracker value yet, only
\* the default trackers.
InitRH ==
    /\ dylibs = {"main"}
    /\ ret = <<"new", NoJD>>
    /\ rts = [h \in RtHandles |-> NoRtHandle]
    /\ rtRefs = [k \in Trackers |-> [made |-> k[2] = 0, removed |-> FALSE, released |-> 0]]

(***************************************************************************)
(* DependenceMapPair: new, get_names, destruct and Drop                    *)
(***************************************************************************)
Bufs == 1 .. MaxBufs
\* No buffer: the pointer of a Vec that holds nothing.
NoBuf == 0
NoPair == [jd |-> NoJD, buf |-> NoBuf, len |-> 0, given |-> <<>>]
NoVec == [buf |-> NoBuf, len |-> 0]
\* The lists of up to MaxNames values a caller holds, each value once.
HandleLists ==
    {L \in UNION {[1 .. n -> Handles] : n \in 0 .. MaxNames} :
        \A k, m \in 1 .. Len(L) : k # m => L[k] # L[m]}
\* The lists of n entries.
EntryLists(n) == [1 .. n -> Entries]

\* Each entry of the list released, in order.
RECURSIVE ReleaseEach(_, _)
ReleaseEach(P, N) ==
    IF N = <<>> THEN P
    ELSE ReleaseEach(LLVMOrcReleaseSymbolStringPoolEntry(P, Head(N)), Tail(N))

\* The buffer is given back to the allocator, and what it held is no
\* longer there; a Vec that holds nothing has no buffer.
Dealloc(M, b) ==
    IF b = NoBuf THEN M
    ELSE [M EXCEPT ![b] = [names |-> <<>>, live |-> FALSE, frees |-> M[b].frees + 1]]

\* What a read of n names through the pointer b finds: the names written
\* there while the buffer is allocated, anything once it was freed.
ReadNames(M, b, n) ==
    IF b = NoBuf THEN {<<>>}
    ELSE IF M[b].live THEN {M[b].names} ELSE EntryLists(n)

\* DependenceMapPair::new(jit_dylib, names): the pair takes the pointer and
\* the length of names; names itself is dropped when new returns, which
\* releases every name and frees the buffer.
DependenceMapPair_new(j, L) ==
    /\ pair = NoPair
    /\ \A k \in 1 .. Len(L) : handles[L[k]] # NoHandle
    /\ LET N == [k \in 1 .. Len(L) |-> handles[L[k]].entry]
       IN  /\ IF N = <<>>
              THEN /\ pair' = [jd |-> j, buf |-> NoBuf, len |-> 0, given |-> N]
                   /\ heap' = heap
              ELSE \E b \in Bufs :
                     /\ ~heap[b].live
                     /\ pair' = [jd |-> j, buf |-> b, len |-> Len(N), given |-> N]
                     /\ heap' = Dealloc([heap EXCEPT ![b] = [names |-> N, live |-> TRUE,
                                                             frees |-> 0]], b)
           /\ pool' = ReleaseEach(pool, N)
    /\ handles' = [h \in Handles |->
                     IF \E k \in 1 .. Len(L) : L[k] = h THEN NoHandle ELSE handles[h]]
    /\ UNCHANGED <<units, boxes, vec, got>>

\* get_names(&self): the slice of Length names at Symbols.
get_names ==
    /\ pair # NoPair
    /\ got' \in ReadNames(heap, pair.buf, pair.len)
    /\ UNCHANGED <<pool, handles, units, boxes, heap, pair, vec>>

\* Drop for DependenceMapPair: a Vec is rebuilt from Symbols and Length and
\* dropped, which frees the buffer.
drop_DependenceMapPair(M, v) == Dealloc(M, v.buf)

\* A DependenceMapPair value goes out of scope.
drop_pair ==
    /\ pair # NoPair
    /\ heap' = drop_DependenceMapPair(heap, pair)
    /\ pair' = NoPair
    /\ UNCHANGED <<pool, handles, units, boxes, vec, got>>

\* destruct(self): a Vec of names is rebuilt from Symbols and Length and
\* returned; self goes out of scope as destruct returns.
destruct ==
    /\ pair # NoPair /\ vec = NoVec
    /\ heap' = drop_DependenceMapPair(heap, pair)
    /\ vec' = [buf |-> pair.buf, len |-> pair.len]
    /\ got' \in ReadNames(heap', pair.buf, pair.len)
    /\ pair' = NoPair
    /\ UNCHANGED <<pool, handles, units, boxes>>

\* The Vec destruct returned goes out of scope: every name it holds is
\* released and its buffer freed.
drop_Vec ==
    /\ vec # NoVec
    /\ \E r \in ReadNames(heap, vec.buf, vec.len) : pool' = ReleaseEach(pool, r)
    /\ heap' = Dealloc(heap, vec.buf)
    /\ vec' = NoVec
    /\ UNCHANGED <<handles, units, boxes, pair, got>>

\* No pair, no buffer.
InitDMP ==
    /\ heap = [b \in Bufs |-> [names |-> <<>>, live |-> FALSE, frees |-> 0]]
    /\ pair = NoPair
    /\ vec = NoVec
    /\ got = <<>>

\* What every value a caller owns is at the start.
InitRes ==
    /\ InitES /\ InitRH /\ InitDMP
    /\ released = {}
    /\ calls = [t \in Threads |-> Idle]
    /\ InitEV

(***************************************************************************)
(* The specifications.                                                     *)
(***************************************************************************)
Init ==
    /\ InitRes
    /\ table = [s \in Sym |-> "absent"]
    /\ phase = [i \in Ids |-> "unused"]
    /\ syms = [i \in Ids |-> {}]
    /\ target = [i \in Ids |-> NoJD]
    /\ handle = [i \in Ids |-> FALSE]
    /\ deps = {}
    /\ waiting = [s \in Sym |-> 0]
    /\ woken = NoneWoken
    /\ lastErr = "none"
    /\ budget \in Budgets
    /\ rt = [s \in Sym |-> 0]
    /\ trackers = {}

\* The non-empty sets of names a call may pass.
NameSets == SUBSET Names \ {{}}
\* The symbol sets of the units defined in namespace j.
UnitSets(j) == SUBSET Declared(j) \ {{}}
\* The sets of names a notify_resolved map may name.
MapSets == SUBSET Names
\* The dependence lists a call may pass.
DepSets == {{<<j, n>>} : j \in JDs, n \in {"x"}}

Next ==
    \/ \E j \in JDs : \E S \in UnitSets(j) : define(j, S) /\ UNCHANGED resVars
    \/ \E s \in Sym : lookup(s) /\ UNCHANGED resVars
    \/ \E i \in Ids : materialization_unit_materialize(i) /\ UNCHANGED resVars
    \/ \E i \in Ids, M \in MapSets : notify_resolved(i, M) /\ UNCHANGED resVars
    \/ \E i \in Ids : notify_emitted(i) /\ UNCHANGED resVars
    \/ \E i \in Ids : fail_materialization(i) /\ UNCHANGED resVars
    \/ \E i \in Ids, S \in NameSets : delegate(i, S) /\ UNCHANGED resVars
    \/ \E i \in Ids, S \in NameSets : replace(i, S) /\ UNCHANGED resVars
    \/ \E i \in Ids : \E S \in UnitSets(target[i]) : define_materializing(i, S) /\ UNCHANGED resVars
    \/ \E i \in Ids, n \in Names, D \in DepSets : add_dependencies(i, n, D) /\ UNCHANGED resVars
    \/ \E i \in Ids, D \in DepSets : add_dependencies_for_all(i, D) /\ UNCHANGED resVars

Spec == Init /\ [][Next]_vars

\* The runs in which a responsibility claims, through define_materializing,
\* names that no unit of its namespace declares.
InitDM == Init /\ budget.lookups = 1

NextDM ==
    \/ Next
    \/ \E i \in Ids, S \in NameSets : define_materializing(i, S) /\ UNCHANGED resVars

SpecDM == InitDM /\ [][NextDM]_vars

\* The runs of the values alone start with the protocol at rest.
InitValues == Init /\ budget.deps = 0

\* The runs of symbol names and materialization units alone.
NextES ==
    \/ \E h \in Handles, x \in Texts : intern(h, x) /\ UNCHANGED <<protoVars, rhVars, dmpVars>>
    \/ \E h, c \in Handles : clone(h, c) /\ UNCHANGED <<protoVars, rhVars, dmpVars>>
    \/ \E h \in Handles : drop(h) /\ UNCHANGED <<protoVars, rhVars, dmpVars>>
    \/ \E u \in Units, H \in SUBSET Handles, i \in Handles \cup {0} :
          create(u, H, i) /\ UNCHANGED <<protoVars, rhVars, dmpVars>>
    \/ \E u \in Units : drop_MaterializationUnit(u) /\ UNCHANGED <<protoVars, rhVars, dmpVars>>
    \/ \E u \in Units : define_unit(u) /\ UNCHANGED <<protoVars, rhVars, dmpVars>>
    \/ \E u \in Units : replace_unit(u) /\ UNCHANGED <<protoVars, rhVars, dmpVars>>
    \/ \E u \in Units : dispose(u) /\ UNCHANGED <<protoVars, rhVars, dmpVars>>
    \/ \E u \in Units : Materializer_materialize(u) /\ UNCHANGED <<protoVars, rhVars, dmpVars>>
    \/ \E u \in Units : materialize_return(u) /\ UNCHANGED <<protoVars, rhVars, dmpVars>>
    \/ \E u \in Units, e \in Entries : discard(u, e) /\ UNCHANGED <<protoVars, rhVars, dmpVars>>
    \/ \E h \in Handles, u \in Units :
          get_static_initializer_symbol(h, u) /\ UNCHANGED <<protoVars, rhVars, dmpVars>>

SpecES == InitValues /\ [][NextES]_vars

\* The runs of namespaces and ResourceTracker values alone.
NextRH ==
    \/ \E n \in JDs : create_jit_dylib(n) /\ UNCHANGED <<protoVars, esVars, dmpVars>>
    \/ \E n \in JDs : get_jit_dylib_by_name(n) /\ UNCHANGED <<protoVars, esVars, dmpVars>>
    \/ \E h \in RtHandles, j \in JDs : get_default_resource_tracker(h, j) /\ UNCHANGED <<protoVars, esVars, dmpVars>>
    \/ \E h \in RtHandles, j \in JDs : create_tracker(h, j) /\ UNCHANGED <<protoVars, esVars, dmpVars>>
    \/ \E h \in RtHandles : drop_tracker(h) /\ UNCHANGED <<protoVars, esVars, dmpVars>>
    \/ \E h \in RtHandles : remove_tracker(h) /\ UNCHANGED <<protoVars, esVars, dmpVars>>

SpecRH == InitValues /\ [][NextRH]_vars

\* The runs of DependenceMapPair values alone.
NextDMP ==
    \/ \E h \in Handles, x \in Texts : intern(h, x) /\ UNCHANGED <<protoVars, rhVars, dmpVars>>
    \/ \E j \in JDs, L \in HandleLists : DependenceMapPair_new(j, L) /\ UNCHANGED <<protoVars, rhVars>>
    \/ get_names /\ UNCHANGED <<protoVars, rhVars>>
    \/ destruct /\ UNCHANGED <<protoVars, rhVars>>
    \/ drop_pair /\ UNCHANGED <<protoVars, rhVars>>
    \/ drop_Vec /\ UNCHANGED <<protoVars, rhVars>>

SpecDMP == InitValues /\ [][NextDMP]_vars

\* The runs with resource trackers.
BudgetsRT == {[ids |-> MaxIds - 1, lookups |-> 1, deps |-> 0, trackers |-> MaxTrackers],
              [ids |-> MaxIds - 1, lookups |-> MaxLookups, deps |-> MaxDeps - 1, trackers |-> 0]}

InitRT ==
    /\ table = [s \in Sym |-> "absent"]
    /\ phase = [i \in Ids |-> "unused"]
    /\ syms = [i \in Ids |-> {}]
    /\ target = [i \in Ids |-> NoJD]
    /\ handle = [i \in Ids |-> FALSE]
    /\ deps = {}
    /\ waiting = [s \in Sym |-> 0]
    /\ woken = NoneWoken
    /\ lastErr = "none"
    /\ budget \in BudgetsRT
    /\ InitRes
    /\ rt = [s \in Sym |-> 0]
    /\ trackers = {}

\* The tracker numbers a call may name.
TrackerIds == 0 .. MaxTrackers

NextRT ==
    \/ Next
    \/ \E j \in JDs : create_resource_tracker(j) /\ UNCHANGED resVars
    \/ \E j \in JDs, a, b \in TrackerIds : transfer_to(j, a, b) /\ UNCHANGED resVars
    \/ \E j \in JDs, a \in TrackerIds : remove(j, a) /\ UNCHANGED resVars
    \/ \E j \in JDs : clear(j) /\ UNCHANGED resVars

SpecRT == InitRT /\ [][NextRT]_vars

\* The runs with resource trackers whose handles may be dropped.
InitDrop == InitRT /\ budget.trackers = MaxTrackers

NextDrop ==
    \/ NextRT
    \/ \E j \in JDs, a \in TrackerIds :
          drop_handle(j, a) /\ UNCHANGED <<esVars, rhVars, dmpVars, calls, evVars>>

SpecDrop == InitDrop /\ [][NextDrop]_vars

\* The runs of the protocol with the smallest budget: two units or
\* responsibilities, one suspended lookup, no dependence edge.
InitCore == InitRT /\ budget.trackers = MaxTrackers
SpecCore == InitCore /\ [][Next]_vars

\* The runs of the protocol with dependence edges and several suspended
\* lookups.
InitDeps == InitRT /\ budget.trackers = 0
SpecDeps == InitDeps /\ [][Next]_vars

\* The runs of the protocol with three units or responsibilities and no
\* dependence edge.
SpecIds == InitValues /\ [][Next]_vars

\* The runs with trackers and the smallest budget.
SpecTrk == InitCore /\ [][NextRT]_vars

\* The runs in which the materializers pass addresses.
NextEV ==
    \/ \E a \in Addresses, f \in FlagSets :
          EvaluatedSymbol_new(a, f)
             /\ UNCHANGED <<engineVars, esVars, rhVars, dmpVars, released, calls>>
    \/ \E j \in JDs : \E S \in UnitSets(j) : define(j, S) /\ UNCHANGED resVars
    \/ \E s \in Sym : lookup_address(s) /\ UNCHANGED <<esVars, rhVars, dmpVars, released, calls>>
    \/ \E i \in Ids : materialization_unit_materialize(i) /\ UNCHANGED resVars
    \/ \E i \in Ids, M \in MapSets :
          notify_resolved_pairs(i, M) /\ UNCHANGED <<esVars, rhVars, dmpVars, released, calls>>
    \/ \E i \in Ids : notify_emitted(i) /\ UNCHANGED resVars

SpecEV == InitDrop /\ [][NextEV]_vars

\* The runs in which threads call define concurrently, next to the lookups
\* and the calls of the materializers.
InitMT == InitRT /\ budget.trackers = MaxTrackers

NextMT ==
    \/ \E t \in Threads, j \in JDs : \E S \in UnitSets(j) :
          define_enter(t, j, S) /\ UNCHANGED <<esVars, rhVars, dmpVars, released, evVars>>
    \/ \E t \in Threads : define_call(t) /\ UNCHANGED <<esVars, rhVars, dmpVars, released, evVars>>
    \/ \E t \in Threads : define_return(t) /\ UNCHANGED <<esVars, rhVars, dmpVars, released, evVars>>
    \/ \E s \in Sym : lookup(s) /\ UNCHANGED resVars
    \/ \E i \in Ids : materialization_unit_materialize(i) /\ UNCHANGED resVars
    \/ \E i \in Ids, M \in MapSets : notify_resolved(i, M) /\ UNCHANGED resVars
    \/ \E i \in Ids : notify_emitted(i) /\ UNCHANGED resVars
    \/ \E i \in Ids : fail_materialization(i) /\ UNCHANGED resVars

SpecMT == InitMT /\ [][NextMT]_vars

(***************************************************************************)
(* Properties                                                              *)
(***************************************************************************)
\* The ids that own symbols: units waiting for dispatch and live
\* responsibilities.
Owning(i) == phase[i] \in {"defined", "materializing"}

Live(i) == phase[i] = "materializing"

\* C1: no symbol of a namespace is in the symbol sets of two different live
\* responsibilities (nor of a responsibility and a unit waiting for
\* dispatch), whatever define, delegate, replace and define_materializing
\* calls were made.
C1_NoDuplicateOwnership ==
    \A i, k \in Ids :
        (i # k /\ Owning(i) /\ Owning(k) /\ target[i] = target[k])
            => syms[i] \cap syms[k] = {}

\* Two live responsibilities hold symbols of one namespace, the second made
\* by delegate, next to a unit defined in the other namespace.
C1_Witness ==
    /\ budget.lookups = 1
    /\ \E i, k, u \in Ids :
        /\ i # k /\ Live(i) /\ Live(k) /\ phase[u] = "defined"
        /\ target[i] = target[k]
        /\ syms[i] # {} /\ syms[k] # {} /\ syms[u] # {}

\* C2: define is atomic: when every declared name is free the call succeeds
\* and all of them are pending; when one of them has a definition the call
\* returns an error and the symbol tables are unchanged.
C2_DefineAtomic ==
    [][\A j \in JDs : \A S \in UnitSets(j) :
         define(j, S) =>
            IF \A n \in S : table[<<j, n>>] \in {"absent", "failed"}
            THEN /\ lastErr' = "none"
                 /\ \A n \in S : table'[<<j, n>>] = "pending"
                 /\ \A s \in Sym \ DefsOf(j, S) : table'[s] = table[s]
            ELSE /\ lastErr' = "define"
                 /\ table' = table
                 /\ phase' = phase /\ syms' = syms]_vars

\* A define has returned an error in a namespace where one name has a
\* definition and another name is free.
C2_Witness ==
    /\ lastErr = "define"
    /\ table[<<"main", "x">>] \in {"pending", "resolved", "emitted", "errored"}
    /\ table[<<"main", "y">>] = "absent"

\* C3: notify_emitted succeeds only when every symbol of the responsibility is
\* resolved; with a symbol still pending it returns an error, changes no
\* symbol's state and leaves the caller with the same live responsibility.
C3_EmitNeedsResolved ==
    [][\A i \in Ids :
         (handle[i] /\ notify_emitted(i)) =>
            /\ lastErr' = "none" => \A s \in Defs(i) : table[s] = "resolved"
            /\ (\E s \in Defs(i) : table[s] = "pending") =>
                  /\ lastErr' = "notify_emitted"
                  /\ table' = table
                  /\ handle'[i] /\ phase'[i] = "materializing"
                  /\ syms'[i] = syms[i] /\ target'[i] = target[i]]_vars

\* notify_emitted has returned an error to a responsibility with a resolved
\* and a pending symbol, and the caller still holds it.
C3_Witness ==
    /\ lastErr = "notify_emitted"
    /\ \E i \in Ids :
        /\ handle[i] /\ Live(i)
        /\ \E s, r \in Defs(i) : table[s] = "pending" /\ table[r] = "resolved"

\* C4: when a recorded dependency of the responsibility has failed,
\* notify_emitted returns an error, emits nothing and hands the same
\* responsibility back; a fail_materialization through it then fails its
\* symbols.
C4_EmitChecksDependencies ==
    [][\A i \in Ids :
         /\ (Live(i) /\ DependencyFailed(i) /\ notify_emitted(i)) =>
               /\ lastErr' = "notify_emitted"
               /\ table' = table
               /\ handle'[i] /\ phase'[i] = "materializing"
               /\ syms'[i] = syms[i]
         /\ (Live(i) /\ DependencyFailed(i) /\ fail_materialization(i)) =>
               /\ lastErr' = "none"
               /\ \A s \in Defs(i) : table'[s] = "failed"]_vars

\* notify_emitted has returned an error to a responsibility whose symbols are
\* all resolved and one of whose recorded dependencies has failed.
C4_Witness ==
    /\ lastErr = "notify_emitted"
    /\ \E i \in Ids :
        /\ handle[i] /\ Live(i) /\ DependencyFailed(i)
        /\ \A s \in Defs(i) : table[s] = "resolved"

C6_FailMarksOwnSymbols ==
    [][\A i \in Ids :
         (Live(i) /\ handle[i] /\ fail_materialization(i)) =>
            /\ \A s \in Defs(i) : table[s] # "emitted" => table'[s] = "failed"
            /\ \A s \in Sym : table[s] = "emitted" => table'[s] = "emitted"
            /\ \A s \in Sym \ DependantsIn(deps, Defs(i)) : table'[s] = table[s]
            /\ \A k \in Ids \ {i} : syms'[k] = syms[k] /\ phase'[k] = phase[k]]_vars

\* A responsibility has failed while another live responsibility holds a
\* pending symbol and a third one's symbol is emitted.
C6_Witness ==
    /\ \E i, k, e \in Ids :
        /\ phase[i] = "failed" /\ Live(k) /\ phase[e] = "emitted"
        /\ \E s \in Defs(k) : table[s] = "pending"
    /\ \E s \in Sym : table[s] = "emitted"
    /\ \E s \in Sym : table[s] = "failed"

\* C7: fail_materialization answers every lookup suspended on a symbol of the
\* responsibility with an error, none of them stays suspended, a later
\* lookup of a failed symbol is answered with an error at once, and no
\* lookup is ever suspended on a definition that is not pending or resolved.
C7_FailWakesLookups ==
    /\ [][/\ \A i \in Ids :
               (Live(i) /\ handle[i] /\ fail_materialization(i)) =>
                  /\ \A s \in Defs(i) : waiting'[s] = 0
                  /\ woken'.failed >= Waiting(Defs(i))
                  /\ woken'.ok = 0
          /\ \A s \in Sym :
               (table[s] = "failed" /\ lookup(s)) =>
                  /\ woken' = [ok |-> 0, failed |-> 1]
                  /\ waiting' = waiting]_vars
    /\ [](\A s \in Sym : waiting[s] > 0 => table[s] \in {"pending", "resolved"})

\* Two lookups suspended on one symbol have been answered with an error by
\* the failure of its responsibility.
C7_Witness ==
    /\ woken.failed = 2
    /\ Cardinality({s \in Sym : table[s] \in {"failed", "errored"}}) = 1

\* C8: a successful notify_emitted takes the responsibility from the caller,
\* moves all its symbols to emitted and answers every lookup suspended on
\* any of them with the address, however many wait on one symbol.
C8_EmitReleasesLookups ==
    [][\A i \in Ids :
         (handle[i] /\ lastErr' = "none" /\ notify_emitted(i)) =>
            /\ ~handle'[i]
            /\ phase'[i] = "emitted"
            /\ \A s \in Defs(i) : table'[s] = "emitted" /\ waiting'[s] = 0
            /\ woken' = [ok |-> Waiting(Defs(i)), failed |-> 0]]_vars

\* Two lookups suspended on one symbol have been answered with its address
\* by one notify_emitted.
C8_Witness ==
    /\ woken.ok = 2
    /\ Cardinality({s \in Sym : table[s] = "emitted"}) = 1

\* C9: notify_resolved succeeds exactly when every name of the map is a
\* pending symbol of the responsibility; on success exactly the named
\* symbols become resolved, on error no symbol changes state.
C9_ResolveNamedSymbols ==
    [][\A i \in Ids : \A M \in MapSets :
         (handle[i] /\ Live(i) /\ notify_resolved(i, M)) =>
            /\ lastErr' = "none" <=>
                  (/\ M \subseteq syms[i]
                   /\ \A n \in M : table[<<target[i], n>>] = "pending")
            /\ lastErr' = "none" =>
                  \A s \in Sym :
                     table'[s] = IF s \in DefsOf(target[i], M) THEN "resolved" ELSE table[s]
            /\ lastErr' # "none" => lastErr' = "notify_resolved" /\ table' = table]_vars

\* A responsibility of two symbols has resolved y and not yet x.
C9_Witness ==
    /\ lastErr = "none"
    /\ \E i \in Ids :
        /\ handle[i] /\ Live(i) /\ syms[i] = {"x", "y"}
        /\ table[<<target[i], "x">>] = "pending"
        /\ table[<<target[i], "y">>] = "resolved"

\* C10: after a successful delegate(S) the new responsibility owns exactly S
\* and the original its previous symbols without S; the original's
\* notify_resolved naming a symbol it does not own returns an error and
\* changes nothing.
C10_DelegateSplits ==
    [][\A i \in Ids :
         /\ \A S \in NameSets :
              (handle[i] /\ lastErr' = "none" /\ delegate(i, S)) =>
                 /\ syms'[i] = syms[i] \ S
                 /\ syms'[NextId] = S /\ target'[NextId] = target[i]
                 /\ phase'[NextId] = "materializing" /\ handle'[NextId]
                 /\ syms'[i] \cap syms'[NextId] = {}
         /\ \A M \in MapSets :
              (handle[i] /\ ~(M \subseteq syms[i]) /\ notify_resolved(i, M)) =>
                 lastErr' = "notify_resolved" /\ table' = table]_vars

\* The original responsibility's notify_resolved has returned an error while
\* the symbol it delegated is pending under the new responsibility.
C10_Witness ==
    /\ lastErr = "notify_resolved"
    /\ budget.lookups = 1
    /\ \E i, k \in Ids :
        /\ i < k /\ handle[i] /\ Live(i) /\ handle[k] /\ Live(k)
        /\ target[i] = target[k] /\ syms[i] # {} /\ syms[k] # {}
        /\ \A s \in Defs(k) : table[s] = "pending"

Unresolved(i) == {n \in syms[i] : table[<<target[i], n>>] = "pending"}

\* C12 as stated: after a successful replace the calling responsibility owns
\* no not-yet-resolved symbol.
C12_ReplaceAllUnresolved ==
    [][\A i \in Ids : \A S \in NameSets :
         (handle[i] /\ Live(i) /\ lastErr' = "none" /\ replace(i, S)) =>
            Unresolved(i)' = {}]_vars

\* C12: replace(new unit) succeeds exactly when the symbols the unit declares
\* are not-yet-resolved symbols of the calling responsibility; it then
\* transfers those and no other: the calling responsibility still owns its
\* other not-yet-resolved symbols. A failed replace changes nothing.
C12_ReplaceUnitSymbols ==
    [][\A i \in Ids : \A S \in NameSets :
         (handle[i] /\ Live(i) /\ replace(i, S)) =>
            /\ lastErr' = "none" <=> S \subseteq Unresolved(i)
            /\ lastErr' = "none" => Unresolved(i)' = Unresolved(i) \ S
            /\ lastErr' # "none" =>
                  lastErr' = "replace" /\ syms' = syms /\ phase' = phase /\ table' = table]_vars

\* After a successful replace the calling responsibility still owns a
\* not-yet-resolved symbol, next to the unit that took the other one.
C12_Witness ==
    /\ lastErr = "none"
    /\ \E i, u \in Ids :
        /\ i < u /\ handle[i] /\ Live(i) /\ phase[u] = "defined" /\ ~handle[u]
        /\ target[i] = target[u] /\ syms[u] # {}
        /\ Unresolved(i) # {}

\* A call through the handle of responsibility i.
UsesResponsibility(i) ==
    \/ \E M \in MapSets : notify_resolved(i, M)
    \/ notify_emitted(i)
    \/ fail_materialization(i)
    \/ \E S \in NameSets : delegate(i, S) \/ replace(i, S) \/ define_materializing(i, S)
    \/ \E n \in Names, D \in DepSets : add_dependencies(i, n, D)
    \/ \E D \in DepSets : add_dependencies_for_all(i, D)

\* C13: after a terminal operation on a responsibility (a successful
\* notify_emitted, or fail_materialization) every further call through it
\* that the compiler accepts returns an error and changes no definition.
C13_SingleUse ==
    [][\A i \in Ids :
         (handle[i] /\ phase[i] \in {"emitted", "failed"} /\ UsesResponsibility(i)) =>
            lastErr' # "none" /\ table' = table]_vars

\* C14: a symbol that has failed, by its own responsibility or through a
\* dependency, becomes pending, resolved or emitted again only by a step
\* that defines that name anew (define, or define_materializing of a
\* responsibility), and then it is pending; no notify_resolved,
\* notify_emitted, delegate, replace, transfer_to or any other step does it.
C14_FailureMonotonic ==
    [][\A s \in Sym :
         (Failed(s) /\ table'[s] \in {"pending", "resolved", "emitted"}) =>
            /\ table[s] = "failed" /\ table'[s] = "pending"
            /\ \/ \E S \in UnitSets(s[1]) : s[2] \in S /\ define(s[1], S)
               \/ \E i \in Ids : \E S \in UnitSets(s[1]) :
                     target[i] = s[1] /\ s[2] \in S /\ define_materializing(i, S)]_vars

\* A notify_resolved through a failed responsibility has returned an error
\* and a symbol is failed, in a run where a tracker was created.
C14_Witness ==
    /\ lastErr = "notify_resolved"
    /\ trackers # {}
    /\ \E s \in Sym : table[s] = "failed"
    /\ \E i \in Ids : handle[i] /\ phase[i] = "failed"

\* C15: a symbol becomes emitted only from the resolved state, by a
\* notify_emitted of the responsibility that owns it, so every emitted
\* symbol was resolved at an earlier step; and a lookup is answered with
\* success only for a symbol that went this way.
C15_ResolvedBeforeEmitted ==
    [][/\ \A s \in Sym :
            (table'[s] = "emitted" /\ table[s] # "emitted") =>
               /\ table[s] = "resolved"
               /\ \E i \in Ids : s \in Defs(i) /\ notify_emitted(i)
       /\ \A s \in Sym :
            (woken'.ok > 0 /\ lookup(s)) => table[s] = "emitted"
       /\ \A i \in Ids :
            (woken'.ok > 0 /\ notify_emitted(i)) =>
               \A s \in Defs(i) : table[s] = "resolved"]_vars

\* A lookup of an emitted symbol has been answered with success while
\* another symbol of the namespace is still only resolved.
C15_Witness ==
    /\ woken = [ok |-> 1, failed |-> 0]
    /\ \E s, r \in Sym :
        /\ s[1] = r[1] /\ table[s] = "emitted" /\ table[r] = "resolved"
        /\ waiting[s] = 0 /\ waiting[r] = 0

\* A step through the handle of a responsibility that a removal has failed.
AfterRemoval(i) ==
    /\ handle[i] /\ phase[i] = "failed"
    /\ notify_emitted(i) \/ \E M \in MapSets : notify_resolved(i, M)

\* C16 as stated: remove retracts every definition the tracker covers, fails
\* the responsibilities in flight over them, whose later calls reintroduce
\* nothing, and leaves every other definition unchanged.
C16_RemoveOthersUnchanged ==
    [][\A j \in JDs, a \in TrackerIds :
         (Covers(j, a) /\ Held(j, a) /\ remove(j, a)) =>
            /\ \A s \in Covered(j, a) : table'[s] = "absent"
            /\ \A i \in Ids :
                  (Live(i) /\ Defs(i) \cap Covered(j, a) # {}) => phase'[i] = "failed"
            /\ \A s \in Sym \ Covered(j, a) : table'[s] = table[s]]_vars

\* C16: remove of a tracker that covers definitions is all-or-nothing: every
\* definition it covered is absent afterwards and no lookup waits on it, the
\* responsibilities in flight over them are failed and the units not yet
\* dispatched discarded, and their later notify_resolved and notify_emitted
\* return an error and change nothing. A definition of another tracker is
\* not retracted: it keeps its state, unless it is pending or resolved and
\* depends on a not-yet-emitted definition of a responsibility that the
\* removal failed, and then it fails with it.
C16_RemoveAllOrNothing ==
    [][/\ \A j \in JDs, a \in TrackerIds :
            (Covers(j, a) /\ Held(j, a) /\ remove(j, a)) =>
               LET R == Covered(j, a)
                   D == Dragged(InFlight(R)) \ R
               IN  /\ lastErr' = "none"
                   /\ \A s \in R : table'[s] = "absent" /\ waiting'[s] = 0
                   /\ \A i \in Ids :
                         IF Owning(i) /\ Defs(i) \cap R # {}
                         THEN /\ phase'[i] = IF Live(i) THEN "failed" ELSE "discarded"
                              /\ syms'[i] = {}
                         ELSE phase'[i] = phase[i] /\ syms'[i] = syms[i]
                   /\ \A s \in Sym \ R :
                         table'[s] = IF s \in D THEN "errored" ELSE table[s]
       /\ \A i \in Ids :
            AfterRemoval(i) => lastErr' # "none" /\ table' = table]_vars

\* A removal has failed a responsibility in flight and discarded a unit, no
\* definition of their namespace is left, and a later notify_resolved
\* through the failed responsibility has returned an error.
C16_Witness ==
    /\ lastErr = "notify_resolved"
    /\ \E i, d \in Ids : handle[i] /\ phase[i] = "failed" /\ phase[d] = "discarded"
    /\ \A s \in Sym : table[s] = "absent"

HasDefs(j) == \E s \in Sym : s[1] = j /\ Present(s)

\* C18: clear removes every definition of the namespace, whatever its state
\* and whichever tracker of the namespace covers it, as the removal of every
\* tracker of the namespace does: no definition of the namespace is left,
\* every responsibility in flight over its symbols is failed and every unit
\* not yet dispatched discarded, and that failure moves the pending and
\* resolved definitions of other namespaces that depend on those symbols to
\* the error state; nothing else changes.
C18_ClearRemovesAll ==
    [][\A j \in JDs :
         (HasDefs(j) /\ clear(j)) =>
            LET R == UNION {Covered(j, a) : a \in {b \in TrackerIds : Held(j, b)}}
                D == Dragged(InFlight(R)) \ R
            IN  /\ lastErr' = "none"
                /\ \A s \in Sym : s[1] = j => ~Present(s)'
                /\ \A s \in R : table'[s] = "absent" /\ waiting'[s] = 0
                /\ \A i \in Ids :
                      IF Owning(i) /\ target[i] = j /\ Defs(i) \cap R # {}
                      THEN phase'[i] = IF Live(i) THEN "failed" ELSE "discarded"
                      ELSE phase'[i] = phase[i] /\ syms'[i] = syms[i]
                /\ \A s \in Sym \ R :
                      table'[s] = IF s \in D THEN "errored" ELSE table[s]
                /\ trackers' = trackers]_vars

\* A clear has failed a responsibility in flight in one namespace, where no
\* definition is left, and the definition of a responsibility of the other
\* namespace that depended on its symbol is in the error state.
C18_Witness ==
    /\ \A s \in Sym : table[s] # "failed"
    /\ \E i, k \in Ids :
        /\ handle[i] /\ phase[i] = "failed"
        /\ handle[k] /\ Live(k)
        /\ \E s \in Defs(k) : table[s] = "errored"
        /\ \A s \in Sym : s[1] # target[k] => table[s] = "absent"

\* C19: materialize is invoked for a unit only while the unit waits for
\* dispatch and a suspended lookup asks for one of its symbols; it makes the
\* unit a responsibility in flight, and nothing makes a responsibility, or
\* what is left of one, a unit waiting for dispatch again: for each unit
\* accepted by define materialize is invoked at most once, however many
\* lookups ask for its symbols.
C19_MaterializeOnce ==
    [][\A i \in Ids :
         /\ materialization_unit_materialize(i) =>
               /\ phase[i] = "defined" /\ ~handle[i]
               /\ \E n \in syms[i] : waiting[<<target[i], n>>] > 0
               /\ phase'[i] = "materializing"
         /\ (phase[i] = "defined" /\ phase'[i] = "materializing") =>
               materialization_unit_materialize(i)
         /\ phase[i] \notin {"unused", "defined"} => phase'[i] # "defined"]_vars

\* A unit of two symbols was dispatched once while two lookups wait for its
\* symbols.
C19_Witness ==
    \E i \in Ids :
        /\ Live(i) /\ handle[i] /\ syms[i] = {"x", "y"}
        /\ Waiting(Defs(i)) = 2
        /\ \A k \in Ids \ {i} : phase[k] = "unused"

\* C20: when materialize is invoked, get_requested_symbols() of the new
\* responsibility is not empty and holds exactly those of its symbols that a
\* suspended lookup asked for, so it is a subset of get_symbols(); and a
\* lookup that is suspended on a symbol adds that symbol, and no other, to
\* the requested symbols of the unit or responsibility that owns it.
C20_RequestedSymbols ==
    [][/\ \A i \in Ids :
            materialization_unit_materialize(i) =>
               /\ Requested(i)' # {} /\ Requested(i)' \subseteq syms'[i]
               /\ \A n \in syms'[i] :
                     n \in Requested(i)' <=> waiting'[<<target'[i], n>>] > 0
       /\ \A s \in Sym :
            (waiting'[s] = waiting[s] + 1 /\ lookup(s)) =>
               \A i \in Ids :
                  Owning(i) =>
                     Requested(i)' = Requested(i) \cup (IF s \in Defs(i) THEN {s[2]} ELSE {})]_vars

\* Inside materialize for a unit that declares x and y, of which only x was
\* looked up: the requested symbols are x alone.
C20_Witness ==
    \E i \in Ids :
        /\ Live(i) /\ handle[i] /\ syms[i] = {"x", "y"}
        /\ Requested(i) = {"x"}
        /\ \A s \in Defs(i) : table[s] = "pending"
        /\ \A k \in Ids \ {i} : phase[k] = "unused"

\* C21: a unit accepted by define holds exactly the declared names; it holds
\* them unchanged while it waits for dispatch; and when materialize starts
\* get_symbols() of the new responsibility is that set, whichever of the
\* names were looked up.
C21_SymbolsAreDeclared ==
    [][/\ \A j \in JDs : \A S \in UnitSets(j) :
            (lastErr' = "none" /\ define(j, S)) =>
               phase'[NextId] = "defined" /\ syms'[NextId] = S
       /\ \A i \in Ids :
            /\ (phase[i] = "defined" /\ phase'[i] = "defined") => syms'[i] = syms[i]
            /\ materialization_unit_materialize(i) => get_symbols(i)' = syms[i]]_vars

\* Inside materialize for a unit that declares x and y, of which only y was
\* looked up: get_symbols() has both names.
C21_Witness ==
    \E i \in Ids :
        /\ Live(i) /\ handle[i] /\ get_symbols(i) = {"x", "y"}
        /\ Requested(i) = {"y"}
        /\ \A s \in Defs(i) : table[s] = "pending"
        /\ \A k \in Ids \ {i} : phase[k] = "unused"

\* C22: define_materializing(new symbols) through a responsibility in flight
\* succeeds when every new name is free in the namespace: the names are then
\* pending symbols of that responsibility and no other definition changes.
\* When one of the names has a definition it returns an error and claims
\* none of them. A notify_emitted of the responsibility succeeds only when
\* the added symbols were resolved as well.
C22_DefineMaterializing ==
    [][\A i \in Ids :
         /\ \A S \in UnitSets(target[i]) :
              (handle[i] /\ Live(i) /\ define_materializing(i, S)) =>
                 IF \A n \in S : table[<<target[i], n>>] \in {"absent", "failed"}
                 THEN /\ lastErr' = "none"
                      /\ syms'[i] = syms[i] \cup S
                      /\ \A n \in S : table'[<<target[i], n>>] = "pending"
                      /\ \A s \in Sym \ DefsOf(target[i], S) : table'[s] = table[s]
                 ELSE /\ lastErr' = "define_materializing"
                      /\ table' = table /\ syms' = syms
         /\ (handle[i] /\ Live(i) /\ phase'[i] = "emitted" /\ notify_emitted(i)) =>
               \A s \in Defs(i) : table[s] = "resolved"]_vars

\* A define_materializing naming a free and an occupied name has returned an
\* error: the free name is still free and the responsibility owns what it
\* owned.
C22_Witness ==
    /\ lastErr = "define_materializing"
    /\ \E i \in Ids :
        /\ Live(i) /\ handle[i] /\ target[i] = "main" /\ syms[i] = {"x"}
        /\ table[<<"main", "x">>] = "pending"
        /\ table[<<"main", "y">>] = "absent"

\* The edges a call asks for: each of the names N of responsibility i on each
\* of the definitions D.
Asked(i, N, D) == DefsOf(target[i], N) \X D

\* C23: the dependence graph is acyclic in every reachable state, and an
\* add_dependencies or add_dependencies_for_all call that would close a
\* cycle reports an error to its caller and records no edge.
C23_CycleRejected ==
    /\ [](~Cyclic(deps))
    /\ [][\A i \in Ids : \A D \in DepSets :
            /\ \A n \in Names :
                 (/\ handle[i] /\ Live(i) /\ n \in syms[i]
                  /\ Cyclic(deps \cup Asked(i, {n}, D))
                  /\ add_dependencies(i, n, D)) =>
                     lastErr' # "none" /\ deps' = deps
            /\ (/\ handle[i] /\ Live(i)
                /\ Cyclic(deps \cup Asked(i, syms[i], D))
                /\ add_dependencies_for_all(i, D)) =>
                    lastErr' # "none" /\ deps' = deps]_vars

\* A caller holds the SymbolStringPoolEntry value h.
Held_(h) == handles[h] # NoHandle

\* C24: interning is idempotent on content: the value intern returns has
\* the interned text, it is equal to every value the caller holds that was
\* made for the same text, and unequal to every value made for another
\* text.
C24_InternIdempotent ==
    [][\A h \in Handles : \A x \in Texts :
         intern(h, x) =>
            /\ get_string(h)' = x
            /\ \A c \in Handles \ {h} : Held_(c) =>
                  (eq(h, c)' <=> handles[c].made = x)]_vars

\* The holders of the entry at e: the values a caller holds and the
\* engine's references for the symbols and for the static initializer
\* symbol of a unit.
Holders(e) ==
    Cardinality({h \in Handles : handles[h].entry = e})
        + Cardinality({u \in Units : e \in units[u].names})
        + Cardinality({u \in Units : units[u].init.entry = e})

\* C25: in every reachable state the reference count of a pool entry is
\* the number of its holders, so that no entry with a holder is destroyed.
C25_CountIsHolders ==
    \A e \in Entries : pool[e].count = Holders(e)

\* C26: create_jit_dylib of a name that exists returns an error and leaves
\* the registry as it was, the name still finding its namespace;
\* get_jit_dylib_by_name returns None for a name that was never created
\* and the namespace for one that was.
C26_Registry ==
    [][\A n \in JDs :
         /\ (n \in dylibs /\ create_jit_dylib(n)) =>
                /\ ret' = <<"Err", NoJD>> /\ dylibs' = dylibs
                /\ LLVMOrcExecutionSessionGetJITDylibByName(n)' = n
         /\ (n \notin dylibs /\ create_jit_dylib(n)) =>
                ret' = <<"Ok", n>> /\ dylibs' = dylibs \cup {n}
         /\ get_jit_dylib_by_name(n) =>
                /\ ret' = IF n \in dylibs THEN <<"Some", n>> ELSE <<"None", NoJD>>
                /\ dylibs' = dylibs]_vars

\* create_jit_dylib("main") has returned an error in a session where lib
\* was never created.
C26_Witness ==
    ret = <<"Err", NoJD>> /\ dylibs = {"main"}

\* A caller holds a value of the tracker k.
HeldRt(k) == \E h \in RtHandles : rts[h].rt = k

\* C27: a default tracker is never released, whatever happens to the values
\* obtained from get_default_resource_tracker; a tracker made by
\* create_resource_tracker is released exactly once, when its value goes
\* out of scope, also when remove consumed the value: not while the value
\* is held, once from then on.
C27_ReleaseOnce ==
    \A k \in Trackers :
        /\ k[2] = 0 => rtRefs[k].released = 0
        /\ k[2] # 0 =>
              rtRefs[k].released = IF rtRefs[k].made /\ ~HeldRt(k) THEN 1 ELSE 0
        /\ (k[2] # 0 /\ rtRefs[k].removed) => rtRefs[k].released = 1

\* In main both the default tracker and a created one went through remove,
\* and no value is held any more.
C27_Witness ==
    /\ rtRefs[<<"main", 0>>].removed
    /\ rtRefs[<<"main", 1>>].removed
    /\ rtRefs[<<"lib", 1>>].made /\ ~rtRefs[<<"lib", 1>>].removed
    /\ \A h \in RtHandles : rts[h] = NoRtHandle

\* How often the boxed materializer of unit u was freed.
Frees(u) == boxes[u].byMaterialize + boxes[u].byDestroy

\* C28: the boxed materializer of a unit is freed exactly once on every
\* path: by the materialize callback when materialize has returned, or by
\* the destroy callback when the unit is disposed of without having been
\* materialized, never by both and not before; no unit is left whose
\* materializer nobody frees.
C28_MaterializerFreedOnce ==
    \A u \in Units :
        /\ Frees(u) <= 1
        /\ units[u].stage \in {"none", "created", "defined", "materializing"} => Frees(u) = 0
        /\ units[u].stage = "returned" => boxes[u].byMaterialize = 1
        /\ units[u].stage = "disposed" => boxes[u].byDestroy = 1
        /\ units[u].stage = "leaked" => Frees(u) = 1

\* C29: discard is never invoked on a materializer that was freed, and an
\* invocation of discard leaves the reference count of every symbol name
\* as it was.
C29_DiscardOnLiveMaterializer ==
    /\ [](\A u \in Units : boxes[u].stale = 0)
    /\ [][\A u \in Units : \A e \in Entries : discard(u, e) => pool' = pool]_vars

\* C30: get_names and destruct return the names the pair was made from;
\* the buffer of names is allocated for as long as the pair lives; and no
\* buffer is freed a second time.
C30_NamesRoundTrip ==
    /\ [][(get_names \/ destruct) => got' = pair.given]_vars
    /\ []((pair # NoPair /\ pair.buf # NoBuf) => heap[pair.buf].live)
    /\ [](\A b \in Bufs : heap[b].frees <= 1)

\* C31: MaterializationUnit::create with Some(static_initializer) hands the
\* reference of that value over to the unit: the value is not released
\* before the engine receives the name, so create does not lower the count
\* of the entry and the entry is live when the unit is built.
C31_InitializerKept ==
    [][\A u \in Units, H \in SUBSET Handles, i \in Handles :
          (handles[i] # NoHandle /\ create(u, H, i))
              => /\ pool'[handles[i].entry] # Free
                 /\ pool'[handles[i].entry].count >= pool[handles[i].entry].count
                 /\ units'[u].init = handles[i]]_vars

\* How often unit u was disposed of: by the engine, which invokes destroy,
\* or by being dispatched, after which the materialize callback frees it.
Disposals(u) == boxes[u].byDestroy + (IF units[u].stage = "returned" THEN 1 ELSE 0)

\* C32: every MaterializationUnit is disposed of exactly once: a unit that
\* define or replace accepted is the namespace's and the wrapper does not
\* dispose of it again; a unit that define or replace refused is disposed
\* of once all the same, it is not leaked and not disposed of twice.
C32_DisposedOnce ==
    /\ [](\A u \in Units : /\ boxes[u].byDestroy <= 1
                           /\ units[u].stage # "leaked")
    /\ [][\A u \in Units :
             ((define_unit(u) \/ replace_unit(u)) /\ units'[u].stage # "defined")
                 => /\ units'[u].stage = "disposed"
                    /\ boxes'[u].byDestroy = 1]_vars

\* C33: dropping the handle of a created tracker without remove or
\* transfer_to puts the definitions it covers under the default tracker of
\* its namespace and changes nothing else: every definition keeps its
\* state, every unit and every responsibility in flight stays as it is.  A
\* later remove of the default tracker retracts the definitions that are
\* under it then, those folded into it among them.
C33_DropFoldsIntoDefault ==
    [][/\ \A j \in JDs, a \in TrackerIds \ {0} :
            (released' # released /\ Held(j, a) /\ drop_handle(j, a)) =>
               /\ table' = table /\ phase' = phase /\ syms' = syms /\ target' = target
               /\ deps' = deps /\ waiting' = waiting /\ handle' = handle
               /\ \A s \in Sym : rt'[s] = IF s \in Covered(j, a) THEN 0 ELSE rt[s]
               /\ ~Held(j, a)'
       /\ \A j \in JDs :
            (released # {} /\ released' = released /\ trackers' = trackers
                /\ handle' = handle /\ Covered(j, 0) # {} /\ remove(j, 0)) =>
               \A s \in Sym : (s[1] = j /\ Present(s) /\ rt[s] = 0) => table'[s] = "absent"]_vars

\* The handle of a created tracker was dropped, and a definition in flight
\* and an emitted one of its namespace, which only a transfer to that tracker
\* and the drop can have brought there, are under the default tracker.
C33_Witness ==
    \E s, r \in Sym :
        /\ s[1] = r[1] /\ <<s[1], 1>> \in released /\ <<s[1], 1>> \notin trackers
        /\ rt[s] = 0 /\ table[s] = "emitted"
        /\ rt[r] = 0 /\ table[r] \in {"pending", "resolved"}
        /\ \E i \in Ids : phase[i] = "materializing" /\ r \in Defs(i)

\* The owners of definition s: the units waiting for dispatch and the live
\* responsibilities that have it in their symbol set.
Owners(s) == {i \in Ids : Owning(i) /\ s \in Defs(i)}

\* C34 as stated: every pending symbol has exactly one owning live
\* responsibility, between a successful define and the dispatch of
\* materialize too.
C34_PendingHasLiveOwner ==
    \A s \in Sym :
        table[s] = "pending" => Cardinality({i \in Owners(s) : Live(i)}) = 1

\* C34: every pending symbol has exactly one owner, which is a live
\* responsibility or, between a successful define (or replace) and the
\* dispatch of materialize, the unit that declared it; this holds after
\* transfer_to as well.
C34_PendingHasOneOwner ==
    \A s \in Sym : table[s] = "pending" => Cardinality(Owners(s)) = 1

\* Under a created tracker, where a transfer put them, a pending symbol is
\* owned by a live responsibility and another by a unit that waits for
\* dispatch.
C34_Witness ==
    \E s, r \in Sym :
        /\ s # r /\ table[s] = "pending" /\ table[r] = "pending"
        /\ rt[s] = 1 /\ rt[r] = 1
        /\ \E i \in Owners(s) : Live(i)
        /\ \E u \in Owners(r) : phase[u] = "defined"

\* C35 as stated: the symbol set of every live responsibility is non-empty
\* and is a subset of the declared set of one unit of its namespace.
C35_NonEmptySubset ==
    \A i \in Ids :
        Live(i) => /\ syms[i] # {}
                   /\ \E U \in UnitSets(target[i]) : syms[i] \subseteq U

\* C35: the symbol set of a responsibility is the declared set of its unit
\* when materialize is dispatched; while the responsibility is live a
\* delegate or replace takes exactly the symbols it hands to the new owner
\* out of the set, which may leave it empty, and a define_materializing adds
\* exactly the names it claims, which had no definition and need not be
\* declared by any unit; nothing else changes the set.
C35_SymbolSetChanges ==
    [][\A i \in Ids :
         /\ (phase[i] = "defined" /\ Live(i)') => syms'[i] = syms[i]
         /\ (Live(i) /\ Live(i)' /\ syms'[i] # syms[i]) =>
               \/ /\ syms'[i] \subseteq syms[i]
                  /\ \E k \in Ids :
                        /\ phase[k] = "unused" /\ Owning(k)'
                        /\ target'[k] = target[i]
                        /\ syms'[k] = syms[i] \ syms'[i]
               \/ /\ syms[i] \subseteq syms'[i]
                  /\ \A n \in syms'[i] \ syms[i] :
                        /\ Vacant(<<target[i], n>>)
                        /\ table'[<<target[i], n>>] = "pending"]_vars

\* A live responsibility is left with no symbol after it delegated all of
\* them, and the live responsibility that has them owns a name that no unit
\* of its namespace declares, claimed through define_materializing.
C35_Witness ==
    \E i, k \in Ids :
        /\ i # k /\ Live(i) /\ handle[i] /\ syms[i] = {}
        /\ Live(k) /\ handle[k] /\ target[k] = "lib" /\ syms[k] = {"x", "y"}
        /\ \A n \in syms[k] : table[<<"lib", n>>] = "pending"

\* This step takes a symbol of the live responsibility i out of the states
\* pending and resolved by a failure or a retraction, or fails i itself.
FailedInFlight(i) ==
    /\ Live(i)
    /\ \/ phase'[i] = "failed"
       \/ \E s \in Defs(i) : /\ table[s] \in {"pending", "resolved"}
                             /\ table'[s] \in {"failed", "errored", "absent"}

\* C36 as stated: while materialize is in progress the symbols of its
\* responsibility are failed only by a fail_materialization call, their
\* own or one that reaches them along dependence edges; remove, clear,
\* transfer_to and define do not fail them.
C36_OnlyFailMaterialization ==
    [][\A i \in Ids :
         FailedInFlight(i) => \E k \in Ids : fail_materialization(k)]_vars

\* C36: while materialize is in progress the symbols of its responsibility
\* are failed by a fail_materialization call, their own or one that reaches
\* them along dependence edges, or by ResourceTracker::remove or
\* JITDylib::clear retracting them or a definition they depend on; no other
\* operation fails them, transfer_to and define among them.
C36_FailedByFailOrRemoval ==
    [][\A i \in Ids :
         FailedInFlight(i) =>
            \/ \E k \in Ids : fail_materialization(k)
            \/ \E j \in JDs, a \in TrackerIds : remove(j, a)
            \/ \E j \in JDs : clear(j)]_vars

\* A removal has failed a responsibility in flight whose handle the
\* materializer still holds: its symbols are gone, while another
\* responsibility is still in flight.
C36_Witness ==
    \E i, k \in Ids :
        /\ handle[i] /\ phase[i] = "failed" /\ lastErr = "none"
        /\ woken.failed > 0
        /\ trackers # {}
        /\ Live(k) /\ handle[k] /\ target[k] = "lib"
        /\ \A s \in Sym : s[1] = "main" => table[s] = "absent"
        /\ \A s \in Sym : ~Failed(s)


C38_ZeroIsAnAddress ==
    /\ [][\A a \in Addresses, f \in FlagSets :
            (evaluated' # evaluated /\ EvaluatedSymbol_new(a, f)) =>
               get_address(evaluated') = a /\ get_flags(evaluated') = f]_vars
    /\ [][\A i \in Ids, M \in MapSets :
            (handle[i] /\ evaluated # NoSymbol /\ found' = found
                /\ notify_resolved_pairs(i, M)) =>
               IF /\ phase[i] = "materializing"
                  /\ M \subseteq syms[i]
                  /\ \A n \in M : table[<<target[i], n>>] = "pending"
               THEN /\ lastErr' = "none"
                    /\ \A s \in DefsOf(target[i], M) :
                          table'[s] = "resolved" /\ addrs'[s] = get_address(evaluated)
                    /\ \A s \in Sym \ DefsOf(target[i], M) :
                          table'[s] = table[s] /\ addrs'[s] = addrs[s]
               ELSE /\ lastErr' = "notify_resolved"
                    /\ table' = table /\ addrs' = addrs]_vars
    /\ [][\A i \in Ids :
            (handle[i] /\ phase[i] = "materializing" /\ notify_emitted(i)
                /\ \A s \in Defs(i) : table[s] = "resolved") =>
               /\ lastErr' = "none"
               /\ \A s \in Defs(i) : table'[s] = "emitted"]_vars
    /\ [][\A s \in Sym :
            (table[s] = "emitted" /\ evaluated' = evaluated /\ addrs' = addrs
                /\ lookup_address(s)) =>
               /\ lastErr' = "none"
               /\ woken' = [ok |-> 1, failed |-> 0]
               /\ found' = addrs[s] /\ found' \in Addresses]_vars

\* A symbol that was resolved with address zero has been emitted, and a
\* lookup of it has been answered with zero and no error.
C38_Witness ==
    /\ found = Zero
    /\ lastErr = "none"
    /\ woken = [ok |-> 1, failed |-> 0]
    /\ \E s \in Sym : table[s] = "emitted" /\ addrs[s] = Zero

=============================================================================
